---- MODULE Spec2Model ----
(***************************************************************************)
(* Vaulto-Swap: the token/liquidity search aggregator.                     *)
(*   - SearchOrchestrator   GlobalSearchBar.tsx (performSearch, debounce)  *)
(*   - LiquidityAggregationEndpoint   api/uniswap/liquidity/route.ts       *)
(*   - TokenSearchService / PoolEnrichmentService / SubgraphQueryClient    *)
(*   - OrderbookLiquidityMonitor   cowApi + useOrderbookLiquidity          *)
(* JavaScript strings are sequences of one-character strings, so that      *)
(* trim, toLowerCase, includes, the address pattern and template strings   *)
(* are computed as the code computes them.                                 *)
(***************************************************************************)
EXTENDS Integers, Sequences, FiniteSets, TLC

\* ------------------------------------------------------------ bounds
\* performSearch invocations in one behaviour
MaxCalls == 2
\* input changes and chain changes (debounce effect re-runs) in one behaviour
MaxEpoch == 3
\* model time advances in steps of TickMs milliseconds
TickMs == 200
\* fetchLiquidity invocations that reach fetchPairLiquidity in one behaviour
MaxPolls == 2
\* changes of the selected pair or of the chain in one behaviour
MaxRenders == 3

\* ------------------------------------------------------------ state
VARIABLES
  query,              \* useState: the input's value
  chainId,            \* useChainId()
  results,            \* useState: the rendered result list
  isLoading,          \* useState
  searchError,        \* useState: message or Null
  abortControllerRef, \* [current: id of the controller or 0, aborted: ids]
  timers,             \* pending debounce timers [q, chain, elapsed, epoch]
  inflight,           \* performSearch invocations awaiting fetchUniswapLiquidity
  epoch,              \* runs of the debounce effect so far
  stableMs,           \* time since the input value last changed, up to DebounceMs
  issued,             \* number of performSearch invocations so far
  lastCall,           \* the latest performSearch invocation, as it was made
  fetchLog,           \* the aggregation-endpoint calls issued, by invocation
  resultsBy,          \* invocation whose setResults wrote results (0: none)
  errorBy,            \* invocation whose setSearchError wrote searchError
  mergedFrom,         \* what the rendered list was computed from
  isOpen,             \* useState: the result surface is expanded
  selectedIndex,      \* useState: the highlighted entry, counted from 0
  uiEvent             \* the latest invocation of a result's action

searchVars == <<query, chainId, results, isLoading, searchError,
                abortControllerRef, timers, inflight, epoch, stableMs, issued,
                lastCall, fetchLog, resultsBy, errorBy, mergedFrom,
                isOpen, selectedIndex, uiEvent>>

VARIABLES
  apiKeySet,   \* process.env.THE_GRAPH_API_KEY is set
  upTokens,    \* the subgraph's answer to the token search, once given
  upPools,     \* the subgraph's answer to the pool query of each token
  reqs,        \* one POST and one GET request for the same chainId and query
  svc          \* one direct call of a function of lib/uniswap, as it proceeds

apiVars == <<apiKeySet, upTokens, upPools, reqs, svc>>

VARIABLES
  monChainId,  \* useChainId() as the liquidity monitor sees it
  tokenA,      \* useState of OrderbookLiquidityDisplay, "" when not selected
  tokenB,
  liquidity,   \* useState: PairLiquidity or MonNull
  loading,     \* useState
  error,       \* useState: message or Null
  intervals,   \* the active refresh intervals, each with its fetchLiquidity closure
  polls,       \* fetchLiquidity invocations awaiting fetchPairLiquidity
  polled,      \* number of fetchLiquidity invocations that called fetchPairLiquidity
  renders,     \* changes of pair or chain so far
  liquidityOf  \* the poll that wrote liquidity: what its two order fetches met

monVars == <<monChainId, tokenA, tokenB, liquidity, loading, error, intervals,
             polls, polled, renders, liquidityOf>>

vars == <<searchVars, apiVars, monVars>>

\* ------------------------------------------------------------ strings
UpperChars == <<"A","B","C","D","E","F","G","H","I","J","K","L","M",
                "N","O","P","Q","R","S","T","U","V","W","X","Y","Z">>
LowerChars == <<"a","b","c","d","e","f","g","h","i","j","k","l","m",
                "n","o","p","q","r","s","t","u","v","w","x","y","z">>
DigitChars == <<"0","1","2","3","4","5","6","7","8","9">>
WhitespaceChars == {" ", "\t", "\n"}

\* absent value (JavaScript undefined / null) in a text-valued slot
Undefined == <<"undefined">>

toLowerCaseChar(c) ==
  IF \E i \in 1..26 : UpperChars[i] = c
  THEN LowerChars[CHOOSE i \in 1..26 : UpperChars[i] = c]
  ELSE c

toLowerCase(s) == [i \in 1..Len(s) |-> toLowerCaseChar(s[i])]

RECURSIVE trimStart(_)
trimStart(s) ==
  IF Len(s) > 0 /\ s[1] \in WhitespaceChars THEN trimStart(Tail(s)) ELSE s

RECURSIVE trimEnd(_)
trimEnd(s) ==
  IF Len(s) > 0 /\ s[Len(s)] \in WhitespaceChars
  THEN trimEnd(SubSeq(s, 1, Len(s) - 1))
  ELSE s

trim(s) == trimEnd(trimStart(s))

\* String.prototype.includes
includes(s, sub) ==
  \E i \in 0..(Len(s) - Len(sub)) : SubSeq(s, i + 1, i + Len(sub)) = sub

\* ------------------------------------------------------------ addresses
AddressHexLen == 40
HexChars == {"0","1","2","3","4","5","6","7","8","9",
             "a","b","c","d","e","f","A","B","C","D","E","F"}

\* /^0x[a-fA-F0-9]{40}$/.test(s)
IsAddressPattern(s) ==
  /\ Len(s) = 2 + AddressHexLen
  /\ s[1] = "0"
  /\ s[2] = "x"
  /\ \A i \in 3..Len(s) : s[i] \in HexChars

\* the address 0x followed by n copies of the character c
HexRun(c, n) == <<"0", "x">> \o [i \in 1..n |-> c]
AddrOf(c) == HexRun(c, AddressHexLen)

\* ------------------------------------------------------------ chains
ETHEREUM == 1
ARBITRUM == 42161
OPTIMISM == 10
SEPOLIA == 11155111

VaultoChainIds == {1, 10, 56, 137, 42161, 43114, 8453, 42220, 81457,
                   11155111, 421614}

UNISWAP_V3_SUBGRAPH_IDS ==
  [c \in VaultoChainIds |->
     CASE c = 1        -> "5zvR82QoaXYFyDEKLZ9t6v9adgnptxYpKpSbxtgVENFV"
       [] c = 10       -> "Cghf4LfVqPiFw6fp6Y5X5Ubc8UpmUhSfJL82zwiBFLaj"
       [] c = 56       -> "F85MNzUGYqgSHSHRGgeVMNsdnW1KtZSVgFULumXRZTw2"
       [] c = 137      -> "3hCPRGf4z88VC5rsBKU5AA9FBBq5nF3jbKJG7VZCbhjm"
       [] c = 42161    -> "3V7ZY6muhxaQL5qvntX1CFXJ32W7BxXZTGTwmpH5J4t3"
       [] c = 43114    -> "GVH9h9KZ9CqheUEL93qMbq7QwgoBu32QXQDPR6bev4Eo"
       [] c = 8453     -> "43Hwfi3dJSoGpyas9VwNoDAv55yjgGrPpNSmbQZArzMG"
       [] c = 42220    -> "ESdrTJ3twMwWVoQ1hUE2u7PugEHX3QkenudD6aXCkDQ4"
       [] c = 81457    -> "2LHovKznvo8YmKC9ZprPjsYAZDCc4K5q4AYz8s3cnQn1"
       [] c = 11155111 -> ""
       [] c = 421614   -> ""]

isChainSupported_registryOnly(chain) == chain \in DOMAIN UNISWAP_V3_SUBGRAPH_IDS

isChainSupported(chain) ==
  chain \in DOMAIN UNISWAP_V3_SUBGRAPH_IDS /\ UNISWAP_V3_SUBGRAPH_IDS[chain] # ""

\* chains the wallet can be switched to in the model: an indexed chain, a
\* registry entry with an empty subgraph id, and an id outside the registry
Chains == {ETHEREUM, SEPOLIA, 5}

\* ------------------------------------------------------------ search data
Null == "null"

\* the local token registry (config/tokens), consumed as a lookup table
L_USDC == [symbol |-> <<"U","S","D","C">>, name |-> <<"U","S","D"," ","C","o","i","n">>, address |-> AddrOf("A"),
           ticker |-> Undefined, isTokenizedStock |-> FALSE]
L_UST  == [symbol |-> <<"U","S","T">>, name |-> <<"T","e","r","r","a"," ","U","S","D">>, address |-> AddrOf("b"),
           ticker |-> <<"U","S">>, isTokenizedStock |-> TRUE]

\* a registry token "T<n>" named "Token <n>"
L_T(addressChar, n) ==
  [symbol |-> <<"T", n>>, name |-> <<"T","o","k","e","n"," ", n>>,
   address |-> AddrOf(addressChar), ticker |-> Undefined, isTokenizedStock |-> FALSE]

getTokensByChain(chain) ==
  CASE chain = ETHEREUM -> <<L_USDC, L_UST>>
    [] chain = ARBITRUM -> <<L_UST, L_USDC>>
    [] chain = OPTIMISM -> <<L_T("D", "1"), L_T("E", "2"), L_T("3", "3"), L_T("4", "4"),
                            L_T("5", "5"), L_T("6", "6"), L_T("7", "7")>>
    [] chain = SEPOLIA  -> <<L_USDC>>
    [] OTHER              -> <<>>

\* pools and tokens as the aggregation endpoint returns them
PoolLo == [poolAddress |-> AddrOf("1"), feeTierBps |-> 500, tvlUSD |-> 300, volumeUSD |-> 10]
PoolHi == [poolAddress |-> AddrOf("2"), feeTierBps |-> 3000, tvlUSD |-> 700, volumeUSD |-> 20]
R_USDC == [address |-> AddrOf("a"), symbol |-> <<"U","S","D","C">>, name |-> <<"U","S","D"," ","C","o","i","n">>,
           decimals |-> 6, tvlUSD |-> 900, volumeUSD |-> 50, pools |-> <<PoolLo, PoolHi>>]
R_USDT == [address |-> AddrOf("c"), symbol |-> <<"U","S","D","T">>, name |-> <<"T","e","t","h","e","r">>,
           decimals |-> 6, tvlUSD |-> 500, volumeUSD |-> 40, pools |-> <<>>]

\* what the fetch of /api/uniswap/liquidity can come to: a rejected promise, a
\* non-2xx response (with a JSON error body, or with a body that is not JSON,
\* which response.json().catch(() => ({})) turns into the empty object), or a
\* 2xx body
NoOutcome == [kind |-> "none"]

HttpOutcomes ==
  { [kind |-> "network", message |-> "Failed to fetch"],
    [kind |-> "http", ok |-> FALSE, status |-> 500, body |-> [error |-> "Internal server error"]],
    [kind |-> "http", ok |-> FALSE, status |-> 502, body |-> <<>>],
    [kind |-> "http", ok |-> TRUE, status |-> 200, body |-> [tokens |-> <<>>]],
    [kind |-> "http", ok |-> TRUE, status |-> 200, body |-> [tokens |-> <<R_USDT, R_USDC>>]],
    [kind |-> "http", ok |-> TRUE, status |-> 200,
     body |-> [tokens |-> <<R_USDC>>, error |-> "Partial results"]] }

\* `HTTP error: ${response.status}`
HttpErrorMessage(status) ==
  CASE status = 500 -> "HTTP error: 500"
    [] status = 502 -> "HTTP error: 502"
    [] OTHER        -> "HTTP error"

\* the message of the Error fetchUniswapLiquidity builds or receives
FailureMessage(outcome) ==
  IF outcome.kind = "network" THEN outcome.message
  ELSE IF "error" \in DOMAIN outcome.body
       THEN outcome.body.error
       ELSE HttpErrorMessage(outcome.status)

\* fetchUniswapLiquidity without its catch block: failures propagate
fetchUniswapLiquidity_noCatch(chain, outcome) ==
  IF outcome.kind = "http" /\ outcome.ok
  THEN [threw |-> FALSE, tokens |-> outcome.body.tokens,
        error |-> IF "error" \in DOMAIN outcome.body THEN outcome.body.error ELSE Null]
  ELSE [threw |-> TRUE, message |-> FailureMessage(outcome)]

\* fetchUniswapLiquidity(chainId, query): the 2xx body as it is, or the
\* fallback its catch block builds (tokens: [], error: message)
fetchUniswapLiquidity(chain, outcome) ==
  IF outcome.kind = "http" /\ outcome.ok
  THEN [threw |-> FALSE, tokens |-> outcome.body.tokens,
        error |-> IF "error" \in DOMAIN outcome.body THEN outcome.body.error ELSE Null]
  ELSE [threw |-> FALSE, tokens |-> <<>>, error |-> FailureMessage(outcome)]

\* the values typed into the search input
Queries ==
  { <<>>, <<" ">>, <<"u">>, <<"U","S">>, AddrOf("A"), HexRun("A", AddressHexLen + 1) }

\* ------------------------------------------------------------ search results
IdUniswapToken == <<"u","n","i","s","w","a","p","-","t","o","k","e","n","-">>
IdLocalToken == <<"l","o","c","a","l","-","t","o","k","e","n","-">>
IdAddress == <<"a","d","d","r","e","s","s","-">>
IdCmdSwap == <<"c","m","d","-","s","w","a","p">>
IdCmdHoldings == <<"c","m","d","-","h","o","l","d","i","n","g","s">>

StartsWith(s, prefix) ==
  Len(s) >= Len(prefix) /\ SubSeq(s, 1, Len(prefix)) = prefix

RECURSIVE MaxTvlPool(_)
\* pools.reduce((max, pool) => pool.tvlUSD > max.tvlUSD ? pool : max)
MaxTvlPool(pools) ==
  IF Len(pools) = 1 THEN pools[1]
  ELSE LET max == MaxTvlPool(SubSeq(pools, 1, Len(pools) - 1))
           pool == pools[Len(pools)]
       IN IF pool.tvlUSD > max.tvlUSD THEN pool ELSE max

\* the conversion with an id that leaves the address out
liquidityTokenToSearchResult_idWithoutAddress(token, chain) ==
  [id |-> IdUniswapToken,
   type |-> "token",
   title |-> token.symbol,
   subtitle |-> token.name,
   metadata |-> [address |-> token.address, symbol |-> token.symbol,
                 name |-> token.name, decimals |-> token.decimals,
                 chainId |-> chain, tvlUSD |-> token.tvlUSD,
                 volumeUSD |-> token.volumeUSD, pools |-> token.pools,
                 topPool |-> IF Len(token.pools) > 0
                             THEN <<MaxTvlPool(token.pools)>> ELSE <<>>],
   action |-> "selectToken"]

liquidityTokenToSearchResult(token, chain) ==
  [id |-> IdUniswapToken \o token.address,
   type |-> "token",
   title |-> token.symbol,
   subtitle |-> token.name,
   metadata |-> [address |-> token.address, symbol |-> token.symbol,
                 name |-> token.name, decimals |-> token.decimals,
                 chainId |-> chain, tvlUSD |-> token.tvlUSD,
                 volumeUSD |-> token.volumeUSD, pools |-> token.pools,
                 topPool |-> IF Len(token.pools) > 0
                             THEN <<MaxTvlPool(token.pools)>> ELSE <<>>],
   action |-> "selectToken"]

AddressResult(searchQuery) ==
  [id |-> IdAddress \o searchQuery,
   type |-> "address",
   title |-> SubSeq(searchQuery, 1, 6) \o <<".", ".", ".">>
               \o SubSeq(searchQuery, Len(searchQuery) - 3, Len(searchQuery)),
   subtitle |-> <<"V","i","e","w"," ","a","d","d","r","e","s","s">>,
   metadata |-> [address |-> searchQuery],
   action |-> "openExplorer"]

LocalResult(token, chain) ==
  [id |-> IdLocalToken \o token.address,
   type |-> "token",
   title |-> token.symbol,
   subtitle |-> token.name,
   metadata |-> [address |-> token.address, symbol |-> token.symbol,
                 name |-> token.name, chainId |-> chain,
                 isTokenizedStock |-> token.isTokenizedStock,
                 ticker |-> token.ticker],
   action |-> "selectToken"]

CommandResults ==
  << [id |-> IdCmdSwap, type |-> "command", title |-> <<"S","w","a","p"," ","t","o","k","e","n","s">>,
      subtitle |-> <<"S","t","a","r","t"," ","a"," ","t","o","k","e","n"," ","s","w","a","p">>, action |-> "scrollToSwap"],
     [id |-> IdCmdHoldings, type |-> "command", title |-> <<"V","i","e","w"," ","h","o","l","d","i","n","g","s">>,
      subtitle |-> <<"C","h","e","c","k"," ","y","o","u","r"," ","p","o","r","t","f","o","l","i","o">>, action |-> "openHoldings"] >>

\* result.metadata?.address?.toLowerCase()
MetadataAddressLower(result) ==
  IF "metadata" \in DOMAIN result
  THEN toLowerCase(result.metadata.address)
  ELSE Undefined

\* slice(0, n)
SliceHead(s, n) == SubSeq(s, 1, IF Len(s) < n THEN Len(s) ELSE n)

MapSeq(s, F(_)) == [i \in 1..Len(s) |-> F(s[i])]

LocalMatchLimit == 5
CommandQueryLength == 2

\* the first filter of the local scan (lines 196-204)
LocalTokenMatchesQuery(token, searchQuery) ==
  LET queryLower == toLowerCase(searchQuery)
  IN \/ includes(toLowerCase(token.symbol), queryLower)
     \/ includes(toLowerCase(token.name), queryLower)
     \/ includes(toLowerCase(token.address), queryLower)
     \/ (token.ticker # Undefined /\ includes(toLowerCase(token.ticker), queryLower))

NotInResults_caseSensitive(token, searchResults) ==
  ~ \E i \in 1..Len(searchResults) :
      "metadata" \in DOMAIN searchResults[i]
        /\ searchResults[i].metadata.address = token.address

\* the second filter (lines 206-211): not already among the results from the API
NotInResults(token, searchResults) ==
  ~ \E i \in 1..Len(searchResults) :
      MetadataAddressLower(searchResults[i]) = toLowerCase(token.address)

\* the local scan removing the remote addresses before it truncates
localTokenMatches_dedupFirst(searchQuery, chain, searchResults) ==
  LET Matches(token) == LocalTokenMatchesQuery(token, searchQuery)
      Fresh(token) == NotInResults(token, searchResults)
      Convert(token) == LocalResult(token, chain)
  IN MapSeq(SliceHead(SelectSeq(SelectSeq(getTokensByChain(chain), Matches), Fresh),
                      LocalMatchLimit), Convert)

\* lines 194-231
localTokenMatches(searchQuery, chain, searchResults) ==
  LET Matches(token) == LocalTokenMatchesQuery(token, searchQuery)
      Fresh(token) == NotInResults(token, searchResults)
      Convert(token) == LocalResult(token, chain)
  IN MapSeq(SelectSeq(SliceHead(SelectSeq(getTokensByChain(chain), Matches),
                                LocalMatchLimit), Fresh), Convert)

\* the commands appended whatever the length of the query
commandSuggestions_always(searchQuery) == CommandResults

commandSuggestions(searchQuery) ==
  IF Len(searchQuery) < CommandQueryLength THEN CommandResults ELSE <<>>

\* the merge with the registry matches put ahead of the API results
MergeResults_localFirst(searchQuery, chain, apiTokens) ==
  LET Convert(token) == liquidityTokenToSearchResult(token, chain)
      uniswapTokens == MapSeq(apiTokens, Convert)
  IN localTokenMatches(searchQuery, chain, uniswapTokens) \o uniswapTokens
       \o commandSuggestions(searchQuery)

\* steps 3 and 4 of performSearch, from the results the API step produced
MergeResults(searchQuery, chain, apiTokens) ==
  LET Convert(token) == liquidityTokenToSearchResult(token, chain)
      uniswapTokens == MapSeq(apiTokens, Convert)
  IN uniswapTokens \o localTokenMatches(searchQuery, chain, uniswapTokens)
       \o commandSuggestions(searchQuery)

\* ------------------------------------------------------------ search session
DebounceMs == 400

clearTimeout_kept(pending) == pending

\* the cleanup of the debounce effect: clearTimeout(timer)
clearTimeout(pending) == {}

\* useEffect(() => { const timer = setTimeout(...); return () => clearTimeout(timer) })
debounceEffect(pending, q, chain, e) ==
  clearTimeout(pending) \cup {[q |-> q, chain |-> chain, elapsed |-> 0, epoch |-> e]}

NoEvent == [kind |-> "none", id |-> <<>>, flip |-> FALSE]

SearchInit ==
  /\ isOpen = FALSE
  /\ selectedIndex = 0
  /\ uiEvent = NoEvent
  /\ query = <<>>
  /\ chainId \in Chains
  /\ results = <<>>
  /\ isLoading = FALSE
  /\ searchError = Null
  /\ abortControllerRef = [current |-> 0, aborted |-> {}]
  /\ timers = debounceEffect({}, <<>>, chainId, 0)
  /\ inflight = {}
  /\ epoch = 0
  /\ stableMs = 0
  /\ issued = 0
  /\ lastCall = [q |-> <<>>, chain |-> chainId, epoch |-> -1, input |-> <<>>,
                 stable |-> DebounceMs, now |-> -1, prevEpoch |-> -1]
  /\ fetchLog = {}
  /\ resultsBy = 0
  /\ errorBy = 0
  /\ mergedFrom = [searchQuery |-> <<>>, chainId |-> chainId, apiTokens |-> <<>>, outcome |-> NoOutcome]

\* onChange: setQuery(e.target.value); the debounce effect re-runs
InputChange(q) ==
  /\ q # query
  /\ epoch < MaxEpoch
  /\ query' = q
  /\ epoch' = epoch + 1
  /\ stableMs' = 0
  /\ timers' = debounceEffect(timers, q, chainId, epoch + 1)
  /\ UNCHANGED <<chainId, results, isLoading, searchError, abortControllerRef,
                 inflight, issued, lastCall, fetchLog, resultsBy, errorBy,
                 mergedFrom>>
  /\ UNCHANGED <<isOpen, selectedIndex, uiEvent>>
  /\ UNCHANGED <<apiVars, monVars>>

\* the wallet switches chain: performSearch is rebuilt, the debounce effect re-runs
ChainChange(c) ==
  /\ c # chainId
  /\ epoch < MaxEpoch
  /\ chainId' = c
  /\ epoch' = epoch + 1
  /\ timers' = debounceEffect(timers, query, c, epoch + 1)
  /\ UNCHANGED <<query, results, isLoading, searchError, abortControllerRef,
                 inflight, stableMs, issued, lastCall, fetchLog, resultsBy,
                 errorBy, mergedFrom>>
  /\ UNCHANGED <<isOpen, selectedIndex, uiEvent>>
  /\ UNCHANGED <<apiVars, monVars>>

\* time passes while a timer is pending and none is due
Tick ==
  /\ timers # {}
  /\ \A t \in timers : t.elapsed < DebounceMs
  /\ timers' = { [t EXCEPT !.elapsed = t.elapsed + TickMs] : t \in timers }
  /\ stableMs' = IF stableMs + TickMs < DebounceMs THEN stableMs + TickMs ELSE DebounceMs
  /\ UNCHANGED <<query, chainId, results, isLoading, searchError,
                 abortControllerRef, inflight, epoch, issued, lastCall,
                 fetchLog, resultsBy, errorBy, mergedFrom>>
  /\ UNCHANGED <<isOpen, selectedIndex, uiEvent>>
  /\ UNCHANGED <<apiVars, monVars>>

\* the index left where it was when the list is replaced
resetSelectedIndex_kept(prev) == prev

\* the effect on [results] (lines 338-340): setSelectedIndex(0)
resetSelectedIndex(prev) == 0

isBlank_never(searchQuery) == FALSE

\* line 137: !searchQuery.trim()
isBlank(searchQuery) == trim(searchQuery) = <<>>

isAddressQuery_lowercaseOnly(searchQuery) ==
  IsAddressPattern(trim(searchQuery)) /\ trim(searchQuery) = toLowerCase(trim(searchQuery))

\* line 156: /^0x[a-fA-F0-9]{40}$/.test(searchQuery.trim())
isAddressQuery(searchQuery) == IsAddressPattern(trim(searchQuery))

\* lines 146-150: abort the previous controller, install a new one
newAbortController(ref, id) ==
  [current |-> id,
   aborted |-> IF ref.current # 0 THEN ref.aborted \cup {ref.current} ELSE ref.aborted]

\* performSearch(searchQuery) up to its first await (or to its end), as
\* invocation number id of the closure built for chain
performSearch(searchQuery, chain, id) ==
  IF isBlank(searchQuery)
  THEN /\ results' = <<>>
       /\ selectedIndex' = resetSelectedIndex(selectedIndex)
       /\ searchError' = Null
       /\ resultsBy' = id
       /\ errorBy' = id
       /\ mergedFrom' = [searchQuery |-> searchQuery, chainId |-> chain,
                         apiTokens |-> <<>>, outcome |-> NoOutcome]
       /\ UNCHANGED <<isLoading, abortControllerRef, inflight, fetchLog>>
  ELSE /\ abortControllerRef' = newAbortController(abortControllerRef, id)
       /\ searchError' = Null
       /\ errorBy' = id
       /\ IF isAddressQuery(searchQuery)
          THEN /\ results' = <<AddressResult(searchQuery)>>
               /\ selectedIndex' = resetSelectedIndex(selectedIndex)
               /\ resultsBy' = id
               /\ mergedFrom' = [searchQuery |-> searchQuery, chainId |-> chain,
                                 apiTokens |-> <<>>, outcome |-> NoOutcome]
               /\ isLoading' = FALSE
               /\ UNCHANGED <<inflight, fetchLog>>
          ELSE IF isChainSupported(chain)
          THEN /\ isLoading' = TRUE
               /\ inflight' = inflight \cup
                    {[id |-> id, searchQuery |-> searchQuery, chainId |-> chain]}
               /\ fetchLog' = fetchLog \cup {id}
               /\ UNCHANGED <<results, resultsBy, mergedFrom, selectedIndex>>
          ELSE /\ results' = MergeResults(searchQuery, chain, <<>>)
               /\ selectedIndex' = resetSelectedIndex(selectedIndex)
               /\ resultsBy' = id
               /\ mergedFrom' = [searchQuery |-> searchQuery, chainId |-> chain,
                                 apiTokens |-> <<>>, outcome |-> NoOutcome]
               /\ isLoading' = FALSE
               /\ UNCHANGED <<inflight, fetchLog>>

\* the debounce timer fires: performSearch(query)
TimerFire ==
  \E t \in timers :
    /\ t.elapsed >= DebounceMs
    /\ issued < MaxCalls
    /\ timers' = timers \ {t}
    /\ issued' = issued + 1
    /\ lastCall' = [q |-> t.q, chain |-> t.chain, epoch |-> t.epoch,
                    input |-> query, stable |-> stableMs,
                    now |-> epoch, prevEpoch |-> lastCall.epoch]
    /\ performSearch(t.q, t.chain, issued + 1)
    /\ UNCHANGED <<query, chainId, epoch, stableMs, isOpen, uiEvent>>
    /\ UNCHANGED <<apiVars, monVars>>

\* the finally block left out: isLoading stays as it was
finallyIsLoading_skipped(prev) == prev

\* lines 268-270: finally { setIsLoading(false) }
finallyIsLoading(prev) == FALSE

\* fetchUniswapLiquidity settles for invocation call: lines 184-191, 193-263,
\* and the catch and finally blocks 264-269
SearchResume(call, outcome) ==
  LET apiResponse == fetchUniswapLiquidity(call.chainId, outcome) IN
  /\ call \in inflight
  /\ inflight' = inflight \ {call}
  /\ IF apiResponse.threw
     THEN /\ searchError' = apiResponse.message
          /\ errorBy' = call.id
          /\ results' = <<>>
          /\ mergedFrom' = [searchQuery |-> call.searchQuery, chainId |-> call.chainId,
                            apiTokens |-> <<>>, outcome |-> outcome]
     ELSE /\ IF apiResponse.error # Null
             THEN searchError' = apiResponse.error /\ errorBy' = call.id
             ELSE UNCHANGED <<searchError, errorBy>>
          /\ results' = MergeResults(call.searchQuery, call.chainId, apiResponse.tokens)
          /\ mergedFrom' = [searchQuery |-> call.searchQuery, chainId |-> call.chainId,
                            apiTokens |-> apiResponse.tokens, outcome |-> outcome]
  /\ selectedIndex' = resetSelectedIndex(selectedIndex)
  /\ resultsBy' = call.id
  /\ isLoading' = finallyIsLoading(isLoading)
  /\ UNCHANGED <<query, chainId, abortControllerRef, timers, epoch, stableMs,
                 issued, lastCall, fetchLog, isOpen, uiEvent>>
  /\ UNCHANGED <<apiVars, monVars>>

SearchNext ==
  \/ \E q \in Queries : InputChange(q)
  \/ \E c \in Chains : ChainChange(c)
  \/ Tick
  \/ TimerFire
  \/ \E call \in inflight, o \in HttpOutcomes : SearchResume(call, o)

\* the inputs of the loading indicator's paths: a token text, an address, a
\* blank text
LoadingQueries == {<<"u">>, AddrOf("A"), <<" ">>}

\* some pending aggregation call returns or fails
AggregationSettles == \E call \in inflight, o \in HttpOutcomes : SearchResume(call, o)

LoadingNext ==
  \/ \E q \in LoadingQueries : InputChange(q)
  \/ Tick
  \/ TimerFire
  \/ AggregationSettles

\* ------------------------------------------------------------ search surface
\* setQuery(q) from a handler: the debounce effect re-runs when the value changes
setQuery(q) ==
  IF q # query
  THEN /\ query' = q
       /\ epoch' = epoch + 1
       /\ stableMs' = 0
       /\ timers' = debounceEffect(timers, q, chainId, epoch + 1)
  ELSE UNCHANGED <<query, epoch, stableMs, timers>>

CanSetQuery(q) == q = query \/ epoch < MaxEpoch

UiEvent(kind, id) == [kind |-> kind, id |-> id, flip |-> ~uiEvent.flip]

runAction_commandsKeepOpen(result) ==
  IF result.type = "command"
  THEN [isOpen |-> isOpen, query |-> query]
  ELSE [isOpen |-> FALSE, query |-> <<>>]

\* result.action(): the external effect of each kind (console.log, window.open,
\* scrollIntoView) leaves the component state alone; every action then runs
\* setIsOpen(false); setQuery("") (lines 123-129, 165-173, 226-230, 243-257)
runAction(result) ==
  CASE result.action = "selectToken"  -> [isOpen |-> FALSE, query |-> <<>>]
    [] result.action = "openExplorer" -> [isOpen |-> FALSE, query |-> <<>>]
    [] result.action = "scrollToSwap" -> [isOpen |-> FALSE, query |-> <<>>]
    [] result.action = "openHoldings" -> [isOpen |-> FALSE, query |-> <<>>]

InvokeAction(kind, result) ==
  LET after == runAction(result)
  IN /\ CanSetQuery(after.query)
     /\ isOpen' = after.isOpen
     /\ setQuery(after.query)
     /\ uiEvent' = UiEvent(kind, result.id)
     /\ UNCHANGED selectedIndex

Keys == {"k", "Escape", "ArrowDown", "ArrowUp", "Enter"}

retreat_noWrap(i, n) == IF i = 0 THEN 0 ELSE i - 1

\* (prev + 1) % results.length and (prev - 1 + results.length) % results.length
advance(i, n) == (i + 1) % n
retreat(i, n) == (i - 1 + n) % n

\* handleKeyDown (lines 284-313); "k" stands for Cmd/Ctrl + K
handleKeyDown(key) ==
  /\ CASE key = "k" ->
            /\ isOpen' = TRUE
            /\ UNCHANGED <<query, epoch, stableMs, timers, selectedIndex, uiEvent>>
       [] key = "Escape" ->
            IF isOpen
            THEN /\ CanSetQuery(<<>>)
                 /\ isOpen' = FALSE
                 /\ setQuery(<<>>)
                 /\ UNCHANGED <<selectedIndex, uiEvent>>
            ELSE UNCHANGED <<isOpen, query, epoch, stableMs, timers, selectedIndex,
                             uiEvent>>
       [] key = "ArrowDown" ->
            /\ selectedIndex' = IF isOpen /\ Len(results) > 0
                                THEN advance(selectedIndex, Len(results))
                                ELSE selectedIndex
            /\ UNCHANGED <<isOpen, query, epoch, stableMs, timers, uiEvent>>
       [] key = "ArrowUp" ->
            /\ selectedIndex' = IF isOpen /\ Len(results) > 0
                                THEN retreat(selectedIndex, Len(results))
                                ELSE selectedIndex
            /\ UNCHANGED <<isOpen, query, epoch, stableMs, timers, uiEvent>>
       [] key = "Enter" ->
            IF isOpen /\ Len(results) > 0 /\ selectedIndex + 1 \in 1..Len(results)
            THEN InvokeAction(key, results[selectedIndex + 1])
            ELSE UNCHANGED <<isOpen, query, epoch, stableMs, timers, selectedIndex,
                             uiEvent>>
  /\ UNCHANGED <<chainId, results, isLoading, searchError, abortControllerRef,
                 inflight, issued, lastCall, fetchLog, resultsBy, errorBy,
                 mergedFrom>>
  /\ UNCHANGED <<apiVars, monVars>>

\* the entries are drawn while the surface is open and no search is loading
ResultsShown == isOpen /\ ~isLoading /\ Len(results) > 0

\* onClick of a result entry (line 535)
ClickResult(i) ==
  /\ ResultsShown
  /\ i \in 1..Len(results)
  /\ InvokeAction("click", results[i])
  /\ UNCHANGED <<chainId, results, isLoading, searchError, abortControllerRef,
                 inflight, issued, lastCall, fetchLog, resultsBy, errorBy,
                 mergedFrom>>
  /\ UNCHANGED <<apiVars, monVars>>

\* onMouseEnter of a result entry (line 545)
MouseEnter(i) ==
  /\ ResultsShown
  /\ i \in 1..Len(results)
  /\ selectedIndex' = i - 1
  /\ UNCHANGED <<query, chainId, results, isLoading, searchError,
                 abortControllerRef, timers, inflight, epoch, stableMs, issued,
                 lastCall, fetchLog, resultsBy, errorBy, mergedFrom, isOpen,
                 uiEvent>>
  /\ UNCHANGED <<apiVars, monVars>>

\* onFocus of the input and onClick of the bar (lines 457, 480)
FocusInput ==
  /\ isOpen' = TRUE
  /\ UNCHANGED <<query, chainId, results, isLoading, searchError,
                 abortControllerRef, timers, inflight, epoch, stableMs, issued,
                 lastCall, fetchLog, resultsBy, errorBy, mergedFrom,
                 selectedIndex, uiEvent>>
  /\ UNCHANGED <<apiVars, monVars>>

\* handleClickOutside (lines 322-329), subscribed while the surface is open
ClickOutside ==
  /\ isOpen
  /\ isOpen' = FALSE
  /\ UNCHANGED <<query, chainId, results, isLoading, searchError,
                 abortControllerRef, timers, inflight, epoch, stableMs, issued,
                 lastCall, fetchLog, resultsBy, errorBy, mergedFrom,
                 selectedIndex, uiEvent>>
  /\ UNCHANGED <<apiVars, monVars>>

\* what is typed while the surface is exercised: a text query and an address
SessionQueries == {<<"u">>, AddrOf("A")}

SessionNext ==
  \/ \E q \in SessionQueries : InputChange(q)
  \/ Tick
  \/ TimerFire
  \/ \E call \in inflight, o \in HttpOutcomes : SearchResume(call, o)
  \/ \E key \in Keys : handleKeyDown(key)
  \/ \E i \in 1..Len(results) : ClickResult(i)
  \/ \E i \in 1..Len(results) : MouseEnter(i)
  \/ FocusInput
  \/ ClickOutside

\* ------------------------------------------------------------ JS values
Num(n) == [t |-> "number", v |-> n]
Str(chars) == [t |-> "string", v |-> chars]
JsNull == [t |-> "null"]
NaN == [t |-> "number", nan |-> TRUE]

RECURSIVE DecimalDigits(_)
DecimalDigits(n) ==
  IF n < 10 THEN <<DigitChars[n + 1]>>
  ELSE DecimalDigits(n \div 10) \o <<DigitChars[(n % 10) + 1]>>

\* String(n) for an integer n, as a URL carries it
NumberToString(n) == IF n < 0 THEN <<"-">> \o DecimalDigits(-n) ELSE DecimalDigits(n)

IsDigit(c) == \E d \in 1..10 : DigitChars[d] = c
DigitValue(c) == (CHOOSE d \in 1..10 : DigitChars[d] = c) - 1

RECURSIVE DigitPrefixLen(_)
DigitPrefixLen(chars) ==
  IF Len(chars) > 0 /\ IsDigit(chars[1]) THEN 1 + DigitPrefixLen(Tail(chars)) ELSE 0

RECURSIVE DigitsValue(_)
DigitsValue(chars) ==
  IF Len(chars) = 0 THEN 0
  ELSE 10 * DigitsValue(SubSeq(chars, 1, Len(chars) - 1)) + DigitValue(chars[Len(chars)])

parseInt_unsigned(chars) ==
  LET t == trimStart(chars)
      rest == IF Len(t) > 0 /\ t[1] \in {"-", "+"} THEN Tail(t) ELSE t
      n == DigitPrefixLen(rest)
  IN IF n = 0 THEN NaN ELSE Num(DigitsValue(SubSeq(rest, 1, n)))

\* parseInt(chars, 10): leading whitespace, a sign, the longest digit prefix
parseInt(chars) ==
  LET t == trimStart(chars)
      signed == Len(t) > 0 /\ t[1] \in {"-", "+"}
      rest == IF signed THEN Tail(t) ELSE t
      n == DigitPrefixLen(rest)
      v == DigitsValue(SubSeq(rest, 1, n))
  IN IF n = 0 THEN NaN
     ELSE Num(IF signed /\ t[1] = "-" THEN -v ELSE v)

\* !value for a string-or-null parameter
Falsy(value) == value.t = "null" \/ (value.t = "string" /\ value.v = <<>>)

\* ------------------------------------------------------------ subgraph client
\* the endpoint resolution asking for the access key before looking at the chain
getUniswapV3SubgraphEndpoint_keyFirst(chain, keySet) ==
  IF ~keySet
  THEN [throws |-> TRUE,
        error |-> [template |-> "THE_GRAPH_API_KEY environment variable is required"]]
  ELSE IF chain \notin DOMAIN UNISWAP_V3_SUBGRAPH_IDS \/ UNISWAP_V3_SUBGRAPH_IDS[chain] = ""
  THEN [throws |-> TRUE,
        error |-> [template |-> "No Uniswap v3 subgraph configured for chainId=${chainId}",
                   chainId |-> chain]]
  ELSE [throws |-> FALSE, url |-> UNISWAP_V3_SUBGRAPH_IDS[chain]]

\* getSubgraphUrl / buildSubgraphUrl / getGraphApiKey / getUniswapV3SubgraphEndpoint
getUniswapV3SubgraphEndpoint(chain, keySet) ==
  IF chain \notin DOMAIN UNISWAP_V3_SUBGRAPH_IDS \/ UNISWAP_V3_SUBGRAPH_IDS[chain] = ""
  THEN [throws |-> TRUE,
        error |-> [template |-> "No Uniswap v3 subgraph configured for chainId=${chainId}",
                   chainId |-> chain]]
  ELSE IF ~keySet
  THEN [throws |-> TRUE,
        error |-> [template |-> "THE_GRAPH_API_KEY environment variable is required"]]
  ELSE [throws |-> FALSE, url |-> UNISWAP_V3_SUBGRAPH_IDS[chain]]

\* what the transport can answer to one request without a data payload: the
\* 10 s timeout, a non-2xx status, a 2xx envelope with a non-empty errors
\* list, a 2xx envelope without data
TransportFailures ==
  { [kind |-> "timeout"], [kind |-> "http", status |-> 500],
    [kind |-> "graphql", errors |-> <<"bad query">>], [kind |-> "nodata"] }

\* the catch block of the client rethrowing the error as it is
rethrow_asIs(chain, cause) ==
  [throws |-> TRUE, error |-> [template |-> cause]]

\* the catch block of the client (lines 63-71): the error is an Error instance
rethrow(chain, cause) ==
  [throws |-> TRUE,
   error |-> [template |-> "Failed to query Uniswap v3 subgraph for chain ${chainId}: ${error.message}",
              chainId |-> chain, cause |-> cause]]

\* queryUniswapV3Subgraph after fetch answered (lines 41-71): the data payload,
\* or a throw
queryResult(chain, answer) ==
  IF answer.kind = "timeout"
  THEN rethrow(chain, "The operation was aborted due to timeout")
  ELSE IF answer.kind = "http" /\ answer.status \notin 200..299
  THEN rethrow(chain, "Uniswap subgraph HTTP error: ${res.status} ${res.statusText}. ${errorText}")
  ELSE IF "errors" \in DOMAIN answer /\ Len(answer.errors) > 0
  THEN rethrow(chain, "Uniswap subgraph GraphQL error: ${errorMessages}. Query: ...")
  ELSE IF "data" \notin DOMAIN answer
  THEN rethrow(chain, "Uniswap subgraph returned no data")
  ELSE [throws |-> FALSE, data |-> answer.data]

\* ------------------------------------------------------------ token search
SearchLimitCap == 100
Min(a, b) == IF a < b THEN a ELSE b

RawToken(addressChar, tvl) ==
  [id |-> AddrOf(addressChar), symbol |-> "TKN", name |-> "Token",
   decimals |-> 18, totalValueLockedUSD |-> tvl, volumeUSD |-> 7]

\* lines 72-79 of tokenSearch.ts
toUniswapToken(t) ==
  [address |-> toLowerCase(t.id), symbol |-> t.symbol, name |-> t.name,
   decimals |-> t.decimals, tvlUSD |-> t.totalValueLockedUSD,
   volumeUSD |-> t.volumeUSD]

\* searchTokens letting the failure of the client through
searchTokensCatch_propagates(chain, outcome) ==
  IF outcome.throws THEN outcome
  ELSE [throws |-> FALSE,
        value |-> [chainId |-> chain, tokens |-> MapSeq(outcome.data, toUniswapToken)]]

\* the try block and the catch block of searchTokens (lines 65-87), from what
\* queryUniswapV3Subgraph came to: tokens, never a throw
searchTokensCatch(chain, outcome) ==
  [throws |-> FALSE,
   value |-> [chainId |-> chain,
              tokens |-> IF outcome.throws THEN <<>>
                         ELSE MapSeq(outcome.data, toUniswapToken)]]

\* searchTokens once the transport answered
searchTokensResult(chain, answer) ==
  searchTokensCatch(chain, queryResult(chain, answer)).value

\* ------------------------------------------------------------ pool enrichment
RawPoolToken(addressChar) ==
  [id |-> AddrOf(addressChar), symbol |-> "TKN", name |-> "Token", decimals |-> 18]

RawPool(poolChar, tokenChar, tvl) ==
  [id |-> AddrOf(poolChar), feeTier |-> 500, liquidity |-> "1000", sqrtPrice |-> "1",
   tick |-> 0, totalValueLockedUSD |-> tvl, volumeUSD |-> 3,
   token0 |-> RawPoolToken(tokenChar), token1 |-> RawPoolToken("F")]

toPoolToken(t) ==
  [address |-> toLowerCase(t.id), symbol |-> t.symbol, name |-> t.name,
   decimals |-> t.decimals]

\* lines 95-116 of pools.ts
toUniswapPool(chain, p) ==
  [poolAddress |-> toLowerCase(p.id), chainId |-> chain, feeTierBps |-> p.feeTier,
   liquidity |-> p.liquidity, sqrtPrice |-> p.sqrtPrice, tick |-> p.tick,
   tvlUSD |-> p.totalValueLockedUSD, volumeUSD |-> p.volumeUSD,
   token0 |-> toPoolToken(p.token0), token1 |-> toPoolToken(p.token1)]

\* the try block and the catch block of getPoolsForToken (lines 86-132), from
\* what queryUniswapV3Subgraph came to: pools, never a throw
getPoolsForTokenCatch(chain, tokenAddress, outcome) ==
  LET Convert(p) == toUniswapPool(chain, p)
  IN [throws |-> FALSE,
      value |-> [chainId |-> chain,
                 tokenAddress |-> toLowerCase(tokenAddress),
                 pools |-> IF outcome.throws THEN <<>>
                           ELSE MapSeq(outcome.data, Convert)]]

\* getPoolsForToken once the transport answered
getPoolsForTokenResult(chain, tokenAddress, answer) ==
  getPoolsForTokenCatch(chain, tokenAddress, queryResult(chain, answer)).value

\* ------------------------------------------------------------ aggregation endpoint
TokenSearchLimit == 10
PoolsPerToken == 10

\* the requests of the model: chain ids and query texts
ApiChainIds == {ETHEREUM, SEPOLIA, 5, 0, -1}
ApiQueries == { <<>>, <<" ">>, <<"u">> }

\* what the subgraph can answer to the token search and to a pool query
TokenAnswers ==
  TransportFailures \cup
    { [kind |-> "data", data |-> d] :
        d \in { <<>>, <<RawToken("A", 500), RawToken("b", 900)>>,
                <<RawToken("c", 500), RawToken("A", 500), RawToken("b", 900)>> } }
PoolAnswers ==
  { [kind |-> "timeout"], [kind |-> "http", status |-> 500] } \cup
    { [kind |-> "data", data |-> d] :
        d \in { <<>>, <<RawPool("1", "a", 40), RawPool("2", "a", 60)>> } }
Unset == [kind |-> "unset"]

\* twelve tokens matching the text "us", in the order the subgraph lists them
ManyTokens ==
  <<RawToken("0", 300), RawToken("3", 900), RawToken("4", 100),
    RawToken("b", 500), RawToken("5", 500), RawToken("6", 700),
    RawToken("7", 200), RawToken("8", 800), RawToken("9", 400),
    RawToken("d", 600), RawToken("e", 1000), RawToken("f", 50)>>
ManyTokensAnswer == [kind |-> "data", data |-> ManyTokens]

\* the tokens whose pool query has every answer of PoolAnswers; the pool
\* query of any other token finds no pool
VariedPoolTokens == {AddrOf("a"), AddrOf("b"), AddrOf("c")}
PoolTokens ==
  VariedPoolTokens \cup { toLowerCase(ManyTokens[i].id) : i \in 1..Len(ManyTokens) }
PoolAnswersFor(address) ==
  IF address \in VariedPoolTokens THEN PoolAnswers
  ELSE { [kind |-> "data", data |-> <<>>] }

Slots == {"POST", "GET"}

\* no direct call of a library function
SvcNone == [fn |-> "none", pc |-> "done"]

NoLog == [searchTokens |-> 0, getPoolsForToken |-> <<>>, fetch |-> 0]

NewRequest(input) ==
  [pc |-> "new", input |-> input, chainId |-> 0, sortedTokens |-> <<>>,
   pending |-> {}, poolResults |-> <<>>, enteredPost |-> FALSE,
   response |-> [status |-> 0], log |-> NoLog]

\* a POST and a GET request for chainId n and query text q
RequestPair(n, q) ==
  [slot \in Slots |->
     IF slot = "POST"
     THEN NewRequest([chainId |-> Num(n), query |-> Str(q)])
     ELSE NewRequest([chainId |-> Str(NumberToString(n)), query |-> Str(q)])]

\* a request body that is not JSON: request.json() rejects with a SyntaxError
NotJson == [t |-> "unparseable"]
JsUndefined == [t |-> "undefined"]

\* JSON bodies of the wrong shape: chainId as a string, chainId null, query a
\* number on an indexed chain, query null on a chain without indexer, an
\* object without chainId, the JSON values null and 7, and a body that is
\* not JSON
MalformedBodies ==
  { [chainId |-> Str(<<"1">>), query |-> Str(<<"u">>)],
    [chainId |-> JsNull, query |-> Str(<<"u">>)],
    [chainId |-> Num(ETHEREUM), query |-> Num(7)],
    [chainId |-> Num(5), query |-> JsNull],
    [query |-> Str(<<"u">>)],
    JsNull,
    Num(7),
    NotJson }

\* a POST request with body, and no GET request
PostOnly(body) ==
  [slot \in Slots |->
     IF slot = "POST"
     THEN NewRequest(body)
     ELSE [NewRequest(JsNull) EXCEPT !.pc = "done"]]

ApiInit ==
  /\ apiKeySet \in BOOLEAN
  /\ upTokens = Unset
  /\ upPools = [a \in PoolTokens |-> Unset]
  /\ \/ \E n \in ApiChainIds, q \in ApiQueries : reqs = RequestPair(n, q)
     \/ \E body \in MalformedBodies : reqs = PostOnly(body)
     \/ reqs = PostOnly([chainId |-> Num(ETHEREUM), query |-> Str(<<"u", "s">>)])
  /\ svc = SvcNone

\* no request is being served
ApiIdle ==
  /\ apiKeySet = TRUE
  /\ upTokens = Unset
  /\ upPools = [a \in PoolTokens |-> Unset]
  /\ reqs = [slot \in Slots |-> [NewRequest(JsNull) EXCEPT !.pc = "done"]]
  /\ svc = SvcNone

\* NextResponse.json(body, { status })
Respond(r, status, body) ==
  [r EXCEPT !.pc = "done", !.response = [status |-> status, body |-> body]]

RECURSIVE InsertByTvlDesc(_, _)
InsertByTvlDesc(sorted, token) ==
  IF Len(sorted) = 0 THEN <<token>>
  ELSE IF sorted[Len(sorted)].tvlUSD >= token.tvlUSD THEN Append(sorted, token)
  ELSE Append(InsertByTvlDesc(SubSeq(sorted, 1, Len(sorted) - 1), token),
              sorted[Len(sorted)])

RECURSIVE SortByTvlDesc(_)
\* tokens.sort((a, b) => b.tvlUSD - a.tvlUSD), a stable sort
SortByTvlDesc(tokens) ==
  IF Len(tokens) = 0 THEN <<>>
  ELSE InsertByTvlDesc(SortByTvlDesc(SubSeq(tokens, 1, Len(tokens) - 1)),
                       tokens[Len(tokens)])

\* the first ten tokens in the order searchTokens returned them
sortedTokensOf_noSort(tokens) == SliceHead(tokens, TokenSearchLimit)

\* lines 107-109 of route.ts
sortedTokensOf(tokens) == SliceHead(SortByTvlDesc(tokens), TokenSearchLimit)

\* lines 122-139 of route.ts
toApiPool(pool) ==
  [poolAddress |-> pool.poolAddress, feeTierBps |-> pool.feeTierBps,
   tvlUSD |-> pool.tvlUSD, volumeUSD |-> pool.volumeUSD,
   token0 |-> pool.token0, token1 |-> pool.token1]

withPools(token, pools) ==
  [address |-> token.address, symbol |-> token.symbol, name |-> token.name,
   decimals |-> token.decimals, tvlUSD |-> token.tvlUSD,
   volumeUSD |-> token.volumeUSD, pools |-> pools]

enrichToken_dropsFailed(token, outcome) ==
  IF outcome.throws \/ outcome.result.pools = <<>>
  THEN <<>>
  ELSE <<withPools(token, MapSeq(outcome.result.pools, toApiPool))>>

\* the callback of sortedTokens.map (lines 113-156): the try block and its catch
enrichToken(token, outcome) ==
  IF outcome.throws
  THEN <<withPools(token, <<>>)>>
  ELSE <<withPools(token, MapSeq(outcome.result.pools, toApiPool))>>

RECURSIVE Flatten(_)
Flatten(ss) == IF Len(ss) = 0 THEN <<>> ELSE ss[1] \o Flatten(Tail(ss))

\* Promise.all over the enriched tokens (lines 112-157)
tokensWithPools(sortedTokens, poolResults) ==
  Flatten([i \in 1..Len(sortedTokens) |-> enrichToken(sortedTokens[i], poolResults[i])])

\* the handler answering an empty search as a failure
AfterSearch_emptyIsError(r, searchResult) ==
  IF Len(searchResult.tokens) = 0
  THEN Respond(r, 404, [error |-> <<"No tokens found">>,
                        chainId |-> r.chainId, tokens |-> <<>>])
  ELSE LET sorted == sortedTokensOf(searchResult.tokens)
       IN [r EXCEPT !.pc = "pools",
                    !.sortedTokens = sorted,
                    !.pending = 1..Len(sorted),
                    !.poolResults = [i \in 1..Len(sorted) |-> Unset],
                    !.log.getPoolsForToken =
                      [i \in 1..Len(sorted) |->
                         [chainId |-> r.chainId, tokenAddress |-> sorted[i].address,
                          limit |-> PoolsPerToken]],
                    !.log.fetch = r.log.fetch + Len(sorted)]

\* searchTokens returned to the POST handler: lines 99-157
AfterSearch(r, searchResult) ==
  IF Len(searchResult.tokens) = 0
  THEN Respond(r, 200, [chainId |-> r.chainId, tokens |-> <<>>])
  ELSE LET sorted == sortedTokensOf(searchResult.tokens)
       IN [r EXCEPT !.pc = "pools",
                    !.sortedTokens = sorted,
                    !.pending = 1..Len(sorted),
                    !.poolResults = [i \in 1..Len(sorted) |-> Unset],
                    !.log.getPoolsForToken =
                      [i \in 1..Len(sorted) |->
                         [chainId |-> r.chainId, tokenAddress |-> sorted[i].address,
                          limit |-> PoolsPerToken]],
                    !.log.fetch = r.log.fetch + Len(sorted)]

\* searchTokens up to its await (lines 61-70 of tokenSearch.ts), called by the handler
CallSearchTokens(r, chain, text, keySet) ==
  LET r1 == [r EXCEPT !.chainId = chain, !.log.searchTokens = r.log.searchTokens + 1]
  IN IF isBlank(text)
     THEN AfterSearch(r1, [chainId |-> chain, tokens |-> <<>>])
     ELSE IF getUniswapV3SubgraphEndpoint(chain, keySet).throws
     THEN AfterSearch(r1, [chainId |-> chain, tokens |-> <<>>])
     ELSE [r1 EXCEPT !.pc = "search", !.log.fetch = r.log.fetch + 1]

\* await request.json() (line 62): the parsed body, or a SyntaxError
requestJson(input) ==
  IF input = NotJson
  THEN [throws |-> TRUE, isError |-> TRUE,
        message |-> <<"Unexpected token o in JSON at position 1">>]
  ELSE [throws |-> FALSE, body |-> input]

\* body.name for a parsed JSON value body: a property of an object, undefined
\* for a missing property and for a number or a string
Prop(body, name) ==
  IF "t" \in DOMAIN body THEN JsUndefined
  ELSE IF name \in DOMAIN body THEN body[name]
  ELSE JsUndefined

\* const { chainId, query } = body (line 63): a TypeError for null
destructure(body) ==
  IF body = JsNull
  THEN [throws |-> TRUE, isError |-> TRUE,
        message |-> <<"Cannot destructure property 'chainId' of 'body' as it is null.">>]
  ELSE [throws |-> FALSE, chainId |-> Prop(body, "chainId"), query |-> Prop(body, "query")]

\* the catch block of POST (lines 165-179)
catchResponse(r, thrown) ==
  Respond(r, 500,
          [error |-> IF thrown.isError THEN thrown.message
                     ELSE <<"Internal server error">>,
           chainId |-> 0, tokens |-> <<>>])

\* lines 65-97 of route.ts, on the destructured body
validateAndSearch(r, chain, text, keySet) ==
  IF chain.t # "number"
  THEN Respond(r, 400, [error |-> <<"chainId must be a number">>])
  ELSE IF ~isChainSupported(chain.v)
  THEN Respond(r, 400,
               [error |-> <<"Chain ", NumberToString(chain.v),
                            " is not supported for Uniswap v3 queries">>,
                chainId |-> chain.v, tokens |-> <<>>])
  ELSE IF text.t # "string"
  THEN Respond(r, 400, [error |-> <<"query must be a string">>])
  ELSE CallSearchTokens(r, chain.v, text.v, keySet)

\* POST(request) up to its first await of the search: lines 61-97 and the
\* catch block 165-179 of route.ts
PostHandler(r, input, keySet) ==
  LET r1 == [r EXCEPT !.enteredPost = TRUE]
      parsed == requestJson(input)
  IN IF parsed.throws THEN catchResponse(r1, parsed)
     ELSE LET fields == destructure(parsed.body)
          IN IF fields.throws THEN catchResponse(r1, fields)
             ELSE validateAndSearch(r1, fields.chainId, fields.query, keySet)

\* GET(request): lines 191-225 of route.ts
GetHandler(r, params, keySet) ==
  IF Falsy(params.chainId)
  THEN Respond(r, 400, [error |-> <<"chainId query parameter is required">>])
  ELSE IF Falsy(params.query)
  THEN Respond(r, 400, [error |-> <<"query parameter is required">>])
  ELSE LET chain == parseInt(params.chainId.v)
       IN IF "nan" \in DOMAIN chain
          THEN Respond(r, 400, [error |-> <<"chainId must be a valid number">>])
          ELSE PostHandler(r, [chainId |-> chain, query |-> params.query], keySet)

ApiPost ==
  /\ reqs["POST"].pc = "new"
  /\ reqs' = [reqs EXCEPT !["POST"] = PostHandler(@, @.input, apiKeySet)]
  /\ UNCHANGED <<apiKeySet, upTokens, upPools, svc>>
  /\ UNCHANGED <<searchVars, monVars>>

ApiGet ==
  /\ reqs["GET"].pc = "new"
  /\ reqs' = [reqs EXCEPT !["GET"] = GetHandler(@, @.input, apiKeySet)]
  /\ UNCHANGED <<apiKeySet, upTokens, upPools, svc>>
  /\ UNCHANGED <<searchVars, monVars>>

\* the subgraph answers the token search of a request (first: min(limit, 100))
ApiSearchReturn(slot, answer) ==
  /\ reqs[slot].pc = "search"
  /\ answer = ManyTokensAnswer => reqs[slot].input.query = Str(<<"u", "s">>)
  /\ upTokens = Unset \/ upTokens = answer
  /\ upTokens' = answer
  /\ LET first == Min(TokenSearchLimit, SearchLimitCap)
         served == IF answer.kind = "data"
                   THEN [answer EXCEPT !.data = SliceHead(@, first)]
                   ELSE answer
     IN reqs' = [reqs EXCEPT ![slot] =
                   AfterSearch(@, searchTokensResult(@.chainId, served))]
  /\ UNCHANGED <<apiKeySet, upPools, svc>>
  /\ UNCHANGED <<searchVars, monVars>>

\* the subgraph answers the pool query for token i of a request; the last
\* answer settles Promise.all and the handler responds (lines 159-164)
ApiPoolReturn(slot, i, answer) ==
  LET r == reqs[slot]
      token == r.sortedTokens[i]
      first == Min(PoolsPerToken, SearchLimitCap)
      served == IF answer.kind = "data"
                THEN [answer EXCEPT !.data = SliceHead(@, first)]
                ELSE answer
      outcome == [throws |-> FALSE,
                  result |-> getPoolsForTokenResult(r.chainId, token.address, served)]
      settled == [r.poolResults EXCEPT ![i] = outcome]
      r1 == [r EXCEPT !.pending = r.pending \ {i}, !.poolResults = settled]
  IN /\ r.pc = "pools"
     /\ i \in r.pending
     /\ answer \in PoolAnswersFor(token.address)
     /\ upPools[token.address] = Unset \/ upPools[token.address] = answer
     /\ upPools' = [upPools EXCEPT ![token.address] = answer]
     /\ reqs' = [reqs EXCEPT ![slot] =
                   IF r1.pending = {}
                   THEN Respond(r1, 200,
                                [chainId |-> r.chainId,
                                 tokens |-> tokensWithPools(r.sortedTokens, settled)])
                   ELSE r1]
     /\ UNCHANGED <<apiKeySet, upTokens, svc>>
     /\ UNCHANGED <<searchVars, monVars>>

ApiNext ==
  \/ ApiPost
  \/ ApiGet
  \/ \E slot \in Slots, answer \in TokenAnswers \cup {ManyTokensAnswer} :
       ApiSearchReturn(slot, answer)
  \/ \E slot \in Slots, i \in 1..TokenSearchLimit, answer \in PoolAnswers :
       ApiPoolReturn(slot, i, answer)

\* ------------------------------------------------------------ library calls
\* direct calls of queryUniswapV3Subgraph, searchTokens and getPoolsForToken
SvcChains == {ETHEREUM, ARBITRUM, SEPOLIA, 5}
SvcTexts == { <<>>, <<" ">>, <<" ", " ">>, <<"u">>, <<" ", "u", " ">> }
SvcAddresses == {AddrOf("A"), AddrOf("b")}
SvcLimits == {10, 150}

NewCall(fn, chain, arg, limit) ==
  [fn |-> fn, chainId |-> chain, arg |-> arg, limit |-> limit, pc |-> "new",
   resolved |-> 0, fetches |-> 0, sent |-> Unset, met |-> Unset, outcome |-> Unset]

SvcCalls ==
  { NewCall("queryUniswapV3Subgraph", c, <<>>, 0) : c \in SvcChains }
    \cup { NewCall("searchTokens", c, t, l) :
              c \in SvcChains, t \in SvcTexts, l \in SvcLimits }
    \cup { NewCall("getPoolsForToken", c, a, l) :
              c \in SvcChains, a \in SvcAddresses, l \in SvcLimits }

\* the answers of the transport to a direct call: the failures, a non-empty
\* errors list next to a data payload, and data payloads (empty, non-empty,
\* next to an empty errors list)
SvcAnswers(fn) ==
  LET payload == IF fn = "getPoolsForToken"
                 THEN <<RawPool("1", "a", 40), RawPool("2", "a", 60)>>
                 ELSE <<RawToken("A", 500), RawToken("b", 900)>>
  IN TransportFailures \cup
       { [kind |-> "graphql", errors |-> <<"bad query">>, data |-> payload],
         [kind |-> "data", data |-> <<>>],
         [kind |-> "data", data |-> payload],
         [kind |-> "data", errors |-> <<>>, data |-> payload] }

\* what the function returns or throws, from what the client came to
svcOutcome(c, clientOutcome) ==
  CASE c.fn = "searchTokens" -> searchTokensCatch(c.chainId, clientOutcome)
    [] c.fn = "getPoolsForToken" -> getPoolsForTokenCatch(c.chainId, c.arg, clientOutcome)
    [] OTHER -> clientOutcome

\* the variables of the GraphQL request (tokenSearch.ts:69, pools.ts:92)
svcVariables(c) ==
  CASE c.fn = "searchTokens" ->
         [text |-> trim(c.arg), first |-> Min(c.limit, SearchLimitCap)]
    [] c.fn = "getPoolsForToken" ->
         [token |-> toLowerCase(c.arg), first |-> Min(c.limit, SearchLimitCap)]
    [] OTHER -> <<>>

\* searchTokens without its guard for blank text
svcEnter_noShortCircuit(c, keySet) ==
  LET endpoint == getUniswapV3SubgraphEndpoint(c.chainId, keySet)
      c1 == [c EXCEPT !.resolved = c.resolved + 1]
  IN IF endpoint.throws
     THEN [c1 EXCEPT !.pc = "done",
                     !.outcome = svcOutcome(c, [throws |-> TRUE, error |-> endpoint.error])]
     ELSE [c1 EXCEPT !.pc = "fetch", !.fetches = c.fetches + 1,
                     !.sent = svcVariables(c)]

\* the function up to its await of fetch: the blank-text guard of searchTokens
\* (tokenSearch.ts:61-63), the endpoint resolution of the client (client.ts:30)
\* and the fetch (33-39)
svcEnter(c, keySet) ==
  IF c.fn = "searchTokens" /\ isBlank(c.arg)
  THEN [c EXCEPT !.pc = "done",
                 !.outcome = [throws |-> FALSE,
                              value |-> [chainId |-> c.chainId, tokens |-> <<>>]]]
  ELSE LET endpoint == getUniswapV3SubgraphEndpoint(c.chainId, keySet)
           c1 == [c EXCEPT !.resolved = c.resolved + 1]
       IN IF endpoint.throws
          THEN [c1 EXCEPT !.pc = "done",
                          !.outcome = svcOutcome(c, [throws |-> TRUE, error |-> endpoint.error])]
          ELSE [c1 EXCEPT !.pc = "fetch", !.fetches = c.fetches + 1,
                          !.sent = svcVariables(c)]

SvcInit ==
  /\ apiKeySet \in BOOLEAN
  /\ upTokens = Unset
  /\ upPools = [a \in PoolTokens |-> Unset]
  /\ reqs = [slot \in Slots |-> [NewRequest(JsNull) EXCEPT !.pc = "done"]]
  /\ svc \in SvcCalls

\* the call is made
SvcEnter ==
  /\ svc.pc = "new"
  /\ svc' = svcEnter(svc, apiKeySet)
  /\ UNCHANGED <<apiKeySet, upTokens, upPools, reqs>>
  /\ UNCHANGED <<searchVars, monVars>>

\* the transport answers the fetch of the call
SvcFetchReturn(answer) ==
  /\ svc.pc = "fetch"
  /\ svc' = [svc EXCEPT !.pc = "done", !.met = answer,
                         !.outcome = svcOutcome(svc, queryResult(svc.chainId, answer))]
  /\ UNCHANGED <<apiKeySet, upTokens, upPools, reqs>>
  /\ UNCHANGED <<searchVars, monVars>>

SvcNext ==
  \/ SvcEnter
  \/ \E answer \in SvcAnswers(svc.fn) : SvcFetchReturn(answer)

\* ------------------------------------------------------------ big integers
\* BigInt values are canonical decimal digit sequences (no leading zero)
RECURSIVE StripLeadingZeros(_)
StripLeadingZeros(digits) ==
  IF Len(digits) > 1 /\ digits[1] = "0" THEN StripLeadingZeros(Tail(digits)) ELSE digits

IsDecimal(chars) == \A i \in 1..Len(chars) : IsDigit(chars[i])

\* BigInt(chars) for a decimal string; BigInt("") is 0n
BigIntOf(chars) == IF Len(chars) = 0 THEN <<"0">> ELSE StripLeadingZeros(chars)

RECURSIVE AddDigits(_, _, _)
\* schoolbook addition from the last digit, with carry
AddDigits(a, b, carry) ==
  IF Len(a) = 0 /\ Len(b) = 0
  THEN IF carry = 0 THEN <<>> ELSE <<DigitChars[carry + 1]>>
  ELSE LET da == IF Len(a) = 0 THEN 0 ELSE DigitValue(a[Len(a)])
           db == IF Len(b) = 0 THEN 0 ELSE DigitValue(b[Len(b)])
           sum == da + db + carry
           ra == IF Len(a) = 0 THEN a ELSE SubSeq(a, 1, Len(a) - 1)
           rb == IF Len(b) = 0 THEN b ELSE SubSeq(b, 1, Len(b) - 1)
       IN Append(AddDigits(ra, rb, sum \div 10), DigitChars[(sum % 10) + 1])

\* a double keeps 53 bits: an odd integer of 16 digits loses its lowest bit
ToDouble(digits) ==
  IF Len(digits) > 15 /\ DigitValue(digits[Len(digits)]) % 2 = 1
  THEN [digits EXCEPT ![Len(digits)] = DigitChars[DigitValue(@)]]
  ELSE digits

BigIntAdd_asNumber(a, b) ==
  ToDouble(StripLeadingZeros(AddDigits(ToDouble(a), ToDouble(b), 0)))

BigIntAdd(a, b) == StripLeadingZeros(AddDigits(a, b, 0))

\* ------------------------------------------------------------ orderbook API
MonNull == [isNull |-> TRUE]

Order(amount) == [uid |-> "uid", sellAmount |-> amount]

\* what the CoW orderbook API can answer to one orders request
\* 9007199254740993 = 2^53 + 1, a sell amount no double represents
AboveTwoTo53 ==
  <<"9", "0", "0", "7", "1", "9", "9", "2", "5", "4", "7", "4", "0", "9", "9", "3">>

OrderAnswers ==
  { [kind |-> "network"], [kind |-> "http", status |-> 500], [kind |-> "unparseable"] } \cup
    { [kind |-> "ok", data |-> d] :
        d \in { <<>>, <<Order(<<"5">>), Order(Undefined), Order(<<"7">>)>>,
                <<Order(<<"x">>)>>,
                <<Order(AboveTwoTo53), Order(<<"1">>)>> } }

IsUpstreamFailure(answer) == answer.kind # "ok"

\* fetchOrders answering [] whatever it received
fetchOrders_dropsOrders(answer) == <<>>

\* fetchOrders: the orders received, or [] from its catch block, which a
\* rejected fetch, the throw on !response.ok and a rejected response.json()
\* all reach
fetchOrders(answer) == IF answer.kind = "ok" THEN answer.data ELSE <<>>

\* order.sellAmount || '0'
SellAmountOf(order) == IF order.sellAmount = Undefined THEN <<"0">> ELSE order.sellAmount

\* BigInt(...) throws a SyntaxError on a string that is no integer
ThrowsOnAmounts(orders) ==
  \E i \in 1..Len(orders) : ~IsDecimal(SellAmountOf(orders[i]))

RECURSIVE SumSellAmounts(_)
SumSellAmounts(orders) ==
  IF Len(orders) = 0 THEN <<"0">>
  ELSE BigIntAdd(SumSellAmounts(SubSeq(orders, 1, Len(orders) - 1)),
                 BigIntOf(SellAmountOf(orders[Len(orders)])))

calculateLiquidity(orders) ==
  [totalLiquidity |-> SumSellAmounts(orders), orderCount |-> Len(orders),
   direction |-> "sell"]

\* the two calls of fetchOrders that Promise.all starts (lines 88-91)
orderQueries(a, b) ==
  <<[sellToken |-> a, buyToken |-> b], [sellToken |-> b, buyToken |-> a]>>

\* both directions computed from the orders of the first query
fetchPairLiquidity_oneQuery(a, b, answerAtoB, answerBtoA) ==
  LET ordersAtoB == fetchOrders(answerAtoB)
  IN IF ThrowsOnAmounts(ordersAtoB)
     THEN MonNull
     ELSE [tokenA |-> a, tokenB |-> b,
           liquidityAtoB |-> calculateLiquidity(ordersAtoB),
           liquidityBtoA |-> calculateLiquidity(ordersAtoB)]

\* fetchPairLiquidity once both order fetches answered; the timestamp
\* (Date.now()) is left out of the record
fetchPairLiquidity(a, b, answerAtoB, answerBtoA) ==
  LET ordersAtoB == fetchOrders(answerAtoB)
      ordersBtoA == fetchOrders(answerBtoA)
  IN IF ThrowsOnAmounts(ordersAtoB) \/ ThrowsOnAmounts(ordersBtoA)
     THEN MonNull
     ELSE [tokenA |-> a, tokenB |-> b,
           liquidityAtoB |-> calculateLiquidity(ordersAtoB),
           liquidityBtoA |-> calculateLiquidity(ordersBtoA)]

\* ------------------------------------------------------------ liquidity monitor
MonTokens == {"0xA", "0xB"}
MonChains == {ETHEREUM, ARBITRUM}

isMainnet(chain) == chain = ETHEREUM
\* enabled: tokenA !== '' && tokenB !== '' && tokenA !== tokenB
enabledFor(a, b) == a # "" /\ b # "" /\ a # b

clearInterval_kept(active) == active

\* clearInterval(interval), the cleanup of the interval effect (line 68)
clearInterval(active) == {}

\* the interval effect (lines 61-69): cleanup, then a new interval when enabled on mainnet
intervalEffect(active, a, b, chain) ==
  IF ~enabledFor(a, b) \/ ~isMainnet(chain)
  THEN clearInterval(active)
  ELSE clearInterval(active) \cup {[tokenA |-> a, tokenB |-> b]}

NoPoll == [id |-> 0, upstreamFailed |-> FALSE, AtoB |-> Unset, BtoA |-> Unset,
           ordersAtoB |-> <<>>, ordersBtoA |-> <<>>]

\* fetchLiquidity up to its await (lines 30-40), for the closure (a, b, chain)
fetchLiquidity(a, b, chain) ==
  IF a = "" \/ b = "" \/ ~isMainnet(chain) \/ ~enabledFor(a, b)
  THEN /\ liquidity' = MonNull
       /\ error' = Null
       /\ liquidityOf' = NoPoll
       /\ UNCHANGED <<loading, polls, polled>>
  ELSE /\ loading' = TRUE
       /\ error' = Null
       /\ polled' = polled + 1
       /\ polls' = polls \cup {[id |-> polled + 1, tokenA |-> a, tokenB |-> b,
                                 queries |-> orderQueries(a, b)]}
       /\ UNCHANGED <<liquidity, liquidityOf>>

\* may another fetchLiquidity invocation start within the bounds
CanPoll(a, b, chain) ==
  (a = "" \/ b = "" \/ ~isMainnet(chain) \/ ~enabledFor(a, b)) \/ polled < MaxPolls

\* a render with new props: both effects of the hook re-run
Rerender(a, b, chain) ==
  /\ renders < MaxRenders
  /\ CanPoll(a, b, chain)
  /\ renders' = renders + 1
  /\ tokenA' = a
  /\ tokenB' = b
  /\ monChainId' = chain
  /\ fetchLiquidity(a, b, chain)
  /\ intervals' = intervalEffect(intervals, a, b, chain)
  /\ UNCHANGED <<searchVars, apiVars>>

MonInit ==
  /\ monChainId \in MonChains
  /\ tokenA = ""
  /\ tokenB = ""
  /\ liquidity = MonNull
  /\ loading = FALSE
  /\ error = Null
  /\ intervals = {}
  /\ polls = {}
  /\ polled = 0
  /\ renders = 0
  /\ liquidityOf = NoPoll

MonIdle ==
  /\ monChainId = ETHEREUM
  /\ tokenA = ""
  /\ tokenB = ""
  /\ liquidity = MonNull
  /\ loading = FALSE
  /\ error = Null
  /\ intervals = {}
  /\ polls = {}
  /\ polled = 0
  /\ renders = 0
  /\ liquidityOf = NoPoll

\* handleTokenASelect / handleTokenBSelect
SelectTokenA(a) == a # tokenA /\ Rerender(a, tokenB, monChainId)
SelectTokenB(b) == b # tokenB /\ Rerender(tokenA, b, monChainId)

\* the Clear button, shown while both tokens are selected
ClearPair == tokenA # "" /\ tokenB # "" /\ Rerender("", "", monChainId)

\* the wallet switches chain; the hook's effects re-run when isMainnet changes
MonChainChange(c) ==
  /\ c # monChainId
  /\ isMainnet(c) # isMainnet(monChainId)
  /\ Rerender(tokenA, tokenB, c)

\* an interval fires: fetchLiquidity() of the closure the interval holds
IntervalTick ==
  \E h \in intervals :
    /\ polled < MaxPolls
    /\ fetchLiquidity(h.tokenA, h.tokenB, ETHEREUM)
    /\ UNCHANGED <<monChainId, tokenA, tokenB, intervals, renders>>
    /\ UNCHANGED <<searchVars, apiVars>>

\* both order requests of a poll are answered: Promise.all settles,
\* fetchPairLiquidity returns and fetchLiquidity resumes (lines 41-52)
OrdersReturn(poll, answerAtoB, answerBtoA) ==
  LET data == fetchPairLiquidity(poll.tokenA, poll.tokenB, answerAtoB, answerBtoA)
  IN /\ poll \in polls
     /\ polls' = polls \ {poll}
     /\ liquidity' = data
     /\ error' = IF data = MonNull THEN "No liquidity data available" ELSE error
     /\ loading' = FALSE
     /\ liquidityOf' =
          [id |-> poll.id,
           upstreamFailed |-> IsUpstreamFailure(answerAtoB) \/ IsUpstreamFailure(answerBtoA),
           AtoB |-> answerAtoB, BtoA |-> answerBtoA,
           ordersAtoB |-> fetchOrders(answerAtoB),
           ordersBtoA |-> fetchOrders(answerBtoA)]
     /\ UNCHANGED <<monChainId, tokenA, tokenB, intervals, polled, renders>>
     /\ UNCHANGED <<searchVars, apiVars>>

MonNext ==
  \/ \E a \in MonTokens : SelectTokenA(a)
  \/ \E b \in MonTokens : SelectTokenB(b)
  \/ ClearPair
  \/ \E c \in MonChains : MonChainChange(c)
  \/ IntervalTick
  \/ \E poll \in polls, answerAtoB \in OrderAnswers, answerBtoA \in OrderAnswers :
       OrdersReturn(poll, answerAtoB, answerBtoA)

\* ------------------------------------------------------------ specifications
\* the search surface is idle: mounted, nothing typed, no timer pending
SearchIdle ==
  /\ isOpen = FALSE
  /\ selectedIndex = 0
  /\ uiEvent = NoEvent
  /\ query = <<>>
  /\ chainId = ETHEREUM
  /\ results = <<>>
  /\ isLoading = FALSE
  /\ searchError = Null
  /\ abortControllerRef = [current |-> 0, aborted |-> {}]
  /\ timers = {}
  /\ inflight = {}
  /\ epoch = 0
  /\ stableMs = 0
  /\ issued = 0
  /\ lastCall = [q |-> <<>>, chain |-> chainId, epoch |-> -1, input |-> <<>>,
                 stable |-> DebounceMs, now |-> -1, prevEpoch |-> -1]
  /\ fetchLog = {}
  /\ resultsBy = 0
  /\ errorBy = 0
  /\ mergedFrom = [searchQuery |-> <<>>, chainId |-> chainId, apiTokens |-> <<>>, outcome |-> NoOutcome]

\* ------------------------------------------------------------ the merge alone
\* remote tokens that the registry of chain 10 holds as its second and sixth
R_T2 == [address |-> AddrOf("e"), symbol |-> <<"T","2">>, name |-> <<"T","o","k","e","n"," ","2">>,
         decimals |-> 18, tvlUSD |-> 400, volumeUSD |-> 30, pools |-> <<>>]
R_T6 == [address |-> AddrOf("6"), symbol |-> <<"T","6">>, name |-> <<"T","o","k","e","n"," ","6">>,
         decimals |-> 18, tvlUSD |-> 200, volumeUSD |-> 20, pools |-> <<PoolLo>>]

\* the inputs of steps 3 and 4 of performSearch: non-blank texts that are no
\* address, chains, and token lists of the aggregation response
MergeQueries ==
  { <<"u">>, <<"t">>, <<"T","4">>, <<"U","S">>, <<" ">>, <<"0","x","e","e">> }
MergeChains == {ETHEREUM, ARBITRUM, OPTIMISM, 5}
MergeApiTokens ==
  { <<>>, <<R_USDC>>, <<R_USDT, R_USDC>>, <<R_T2>>, <<R_T6, R_T2>> }

\* performSearch at line 193, holding the tokens of the aggregation response
MergeInit ==
  /\ isOpen = FALSE
  /\ selectedIndex = 0
  /\ uiEvent = NoEvent
  /\ query \in MergeQueries
  /\ chainId \in MergeChains
  /\ results = <<>>
  /\ isLoading = TRUE
  /\ searchError = Null
  /\ abortControllerRef = [current |-> 1, aborted |-> {}]
  /\ timers = {}
  /\ inflight = {}
  /\ epoch = 1
  /\ stableMs = DebounceMs
  /\ issued = 1
  /\ lastCall = [q |-> query, chain |-> chainId, epoch |-> 1, input |-> query,
                 stable |-> DebounceMs, now |-> 1, prevEpoch |-> -1]
  /\ fetchLog = {}
  /\ resultsBy = 0
  /\ errorBy = 1
  /\ \E tokens \in MergeApiTokens :
       mergedFrom = [searchQuery |-> query, chainId |-> chainId,
                     apiTokens |-> tokens, outcome |-> NoOutcome]

\* lines 193-263 and the finally block
MergeStep ==
  /\ resultsBy = 0
  /\ results' = MergeResults(mergedFrom.searchQuery, mergedFrom.chainId,
                             mergedFrom.apiTokens)
  /\ selectedIndex' = resetSelectedIndex(selectedIndex)
  /\ resultsBy' = issued
  /\ isLoading' = FALSE
  /\ UNCHANGED <<query, chainId, searchError, abortControllerRef, timers, inflight,
                 epoch, stableMs, issued, lastCall, fetchLog, errorBy, mergedFrom,
                 isOpen, uiEvent>>
  /\ UNCHANGED <<apiVars, monVars>>

MergeNext == MergeStep

\* the search orchestrator (GlobalSearchBar)
SearchSpecInit == SearchInit /\ ApiIdle /\ MonIdle
SearchSpec == SearchSpecInit /\ [][SearchNext]_vars

\* the orchestrator where every issued aggregation call eventually returns or
\* fails (the fetch of fetchUniswapLiquidity settles)
LoadingSpecInit == SearchInit /\ ApiIdle /\ MonIdle
LoadingSpec == LoadingSpecInit /\ [][LoadingNext]_vars /\ WF_vars(AggregationSettles)

\* the search surface: keyboard and pointer handling over the orchestrator
SessionSpecInit == SearchInit /\ ApiIdle /\ MonIdle
SessionSpec == SessionSpecInit /\ [][SessionNext]_vars

\* the aggregation endpoint (route.ts) with the services under it
ApiSpecInit == ApiInit /\ SearchIdle /\ MonIdle
ApiSpec == ApiSpecInit /\ [][ApiNext]_vars

\* the library under the endpoint, called directly (lib/uniswap)
MergeSpecInit == MergeInit /\ ApiIdle /\ MonIdle
MergeSpec == MergeSpecInit /\ [][MergeNext]_vars

ServiceSpecInit == SvcInit /\ SearchIdle /\ MonIdle
ServiceSpec == ServiceSpecInit /\ [][SvcNext]_vars

\* the orderbook liquidity monitor (useOrderbookLiquidity)
MonitorSpecInit == MonInit /\ SearchIdle /\ ApiIdle
MonitorSpec == MonitorSpecInit /\ [][MonNext]_vars

\* ------------------------------------------------------------ search claims
\* C1: supersession. Once two searches that both called the aggregation
\* endpoint have resolved, the rendered results and the session error are
\* those written by the search issued last; the response of the earlier
\* search does not replace them.
C1_Supersession ==
  (issued > 1 /\ inflight = {} /\ fetchLog = 1..issued)
    => (resultsBy = issued /\ errorBy = issued)

\* C2: debounce. performSearch is invoked only by the timer of the latest run
\* of the debounce effect, for the input's current value, after that value
\* stayed unchanged for the whole window; a cancelled timer never fires, each
\* timer fires at most once, and at most one timer is pending.
C2_Debounce ==
  /\ Cardinality(timers) <= 1
  /\ issued > 0 =>
       /\ lastCall.q = lastCall.input
       /\ lastCall.stable >= DebounceMs
       /\ lastCall.epoch = lastCall.now
       /\ lastCall.epoch > lastCall.prevEpoch

\* a burst: the first search is issued after several input changes, for the last value
C2_Witness ==
  /\ issued = 1
  /\ lastCall.epoch >= 2
  /\ lastCall.q = <<"U", "S">>
  /\ lastCall.chain = ETHEREUM

\* C3: while the search issued last still awaits its aggregation response,
\* isLoading is true.
C3_LoadingReflectsLatest ==
  (\E call \in inflight : call.id = issued) => isLoading

\* C4: a query of the address shape yields exactly one result, of kind
\* address, with no aggregation-endpoint call and no local token, on every
\* chain; only the response of an earlier search can replace that list.
C4_AddressShortCircuit ==
  (issued > 0 /\ IsAddressPattern(lastCall.q)) =>
    /\ issued \notin fetchLog
    /\ \A call \in inflight : call.id # issued
    /\ resultsBy = issued =>
         /\ Len(results) = 1
         /\ results[1].type = "address"
         /\ results[1].metadata.address = lastCall.q
    /\ resultsBy # issued => resultsBy \in fetchLog

\* the address of a registry token was searched on an indexed chain
C4_Witness ==
  /\ issued > 0
  /\ resultsBy = issued
  /\ lastCall.q = AddrOf("A")
  /\ lastCall.chain = ETHEREUM
  /\ Len(results) = 1

RegistryHasAddress(chain, lowerAddress) ==
  \E i \in 1..Len(getTokensByChain(chain)) :
    toLowerCase(getTokensByChain(chain)[i].address) = lowerAddress

EntriesWithAddress(lowerAddress) ==
  { j \in 1..Len(results) :
      "metadata" \in DOMAIN results[j]
        /\ toLowerCase(results[j].metadata.address) = lowerAddress }

\* C5: merge dedup. An address of the aggregation response that the local
\* registry also holds (compared lowercased) appears in the merged list
\* exactly once, as the remote-sourced entry carrying tvlUSD and pools.
C5_MergeDedup ==
  \A i \in 1..Len(mergedFrom.apiTokens) :
    LET a == toLowerCase(mergedFrom.apiTokens[i].address)
    IN RegistryHasAddress(mergedFrom.chainId, a) =>
         /\ Cardinality(EntriesWithAddress(a)) = 1
         /\ \A j \in EntriesWithAddress(a) :
              /\ StartsWith(results[j].id, IdUniswapToken)
              /\ results[j].metadata.tvlUSD = mergedFrom.apiTokens[i].tvlUSD
              /\ results[j].metadata.pools = mergedFrom.apiTokens[i].pools

\* the response holds a token that the registry holds and the query matches
C5_Witness ==
  \E i \in 1..Len(mergedFrom.apiTokens) :
    /\ mergedFrom.apiTokens[i].address = AddrOf("a")
    /\ LocalTokenMatchesQuery(L_USDC, mergedFrom.searchQuery)
    /\ mergedFrom.chainId = ETHEREUM
    /\ Len(results) > Len(mergedFrom.apiTokens)

EndsWithCommands(list) ==
  /\ Len(list) >= Len(CommandResults)
  /\ SubSeq(list, Len(list) - Len(CommandResults) + 1, Len(list)) = CommandResults

NoTokenEntry(list) == \A j \in 1..Len(list) : list[j].type # "token"

RequestedChain(slot) ==
  LET c == reqs[slot].input.chainId
  IN IF c.t = "number" THEN c.v
     ELSE CHOOSE n \in ApiChainIds : c = Str(NumberToString(n))
RequestedQuery(slot) == reqs[slot].input.query.v

Unindexed(n) ==
  n \notin DOMAIN UNISWAP_V3_SUBGRAPH_IDS \/ UNISWAP_V3_SUBGRAPH_IDS[n] = ""

\* the request was served and names its chain id as the entry point expects
\* it: a number in the POST body, a string in the GET parameters
Answered(slot) ==
  /\ reqs[slot].pc = "done"
  /\ "chainId" \in DOMAIN reqs[slot].input
  /\ "query" \in DOMAIN reqs[slot].input
  /\ reqs[slot].input.chainId.t = IF slot = "POST" THEN "number" ELSE "string"

ExpectedPools(chain, address) ==
  LET Convert(p) == toApiPool(toUniswapPool(chain, p))
  IN IF upPools[address].kind = "data"
     THEN MapSeq(SliceHead(upPools[address].data, PoolsPerToken), Convert)
     ELSE <<>>

\* C8: a batch of n tokens is answered with status 200 and all n tokens in
\* TVL order, whatever subset of the pool fetches failed; a token whose pool
\* fetch failed has pools: [], every other token has the pools fetched for it
C8_EnrichmentIsolation ==
  \A slot \in Slots :
    (Answered(slot) /\ Len(reqs[slot].sortedTokens) > 0) =>
      LET r == reqs[slot]
      IN /\ r.response.status = 200
         /\ Len(r.response.body.tokens) = Len(r.sortedTokens)
         /\ \A i \in 1..Len(r.sortedTokens) :
              /\ r.response.body.tokens[i].address = r.sortedTokens[i].address
              /\ r.response.body.tokens[i].tvlUSD = r.sortedTokens[i].tvlUSD
              /\ r.response.body.tokens[i].pools =
                   ExpectedPools(r.chainId, r.sortedTokens[i].address)

C8_Witness ==
  /\ Answered("POST")
  /\ Len(reqs["POST"].sortedTokens) = 3
  /\ upPools[AddrOf("b")].kind = "timeout"
  /\ upPools[AddrOf("a")].kind = "data" /\ Len(upPools[AddrOf("a")].data) = 2
  /\ upPools[AddrOf("c")].kind = "http"
  /\ reqs["POST"].response.body.tokens[1].pools = <<>>
  /\ Len(reqs["POST"].response.body.tokens[3].pools) = 2

\* C9 as stated: GET and POST answer alike for every integer chainId and every
\* string query, the empty string included
C9_GetEqualsPost ==
  (Answered("POST") /\ Answered("GET")) =>
    reqs["GET"].response = reqs["POST"].response

\* C9: GET and POST answer alike (status and body) for every integer chainId
\* and every non-empty string query under the same upstream behaviour; the
\* empty query is rejected by GET with 400 "query parameter is required"
C9_GetEqualsPostNonEmpty ==
  (Answered("POST") /\ Answered("GET")) =>
    IF RequestedQuery("GET") # <<>>
    THEN reqs["GET"].response = reqs["POST"].response
    ELSE /\ reqs["GET"].response =
              [status |-> 400, body |-> [error |-> <<"query parameter is required">>]]
         /\ "tokens" \in DOMAIN reqs["POST"].response.body

C9_Witness ==
  /\ Answered("POST") /\ Answered("GET")
  /\ RequestedQuery("GET") = <<"u">>
  /\ RequestedChain("GET") = ETHEREUM
  /\ reqs["GET"].response.status = 200
  /\ Len(reqs["GET"].response.body.tokens) = 3

\* ------------------------------------------------------------ monitor claims
\* C10: a poll that met an upstream failure while fetching the orders of the
\* pair ends in a null aggregate, never in a PairLiquidity
C10_UpstreamFailureIsNull ==
  liquidityOf.upstreamFailed => liquidity = MonNull

C12_OffMainnetNoData ==
  ~isMainnet(monChainId) => liquidity = MonNull

\* an exact sum computed on two limbs of 8 decimal digits each (base 10^8)
LimbsOf(chars) ==
  LET n == Len(chars)
  IN IF n <= 8 THEN <<0, DigitsValue(chars)>>
     ELSE <<DigitsValue(SubSeq(chars, 1, n - 8)),
            DigitsValue(SubSeq(chars, n - 8 + 1, n))>>

LimbsAdd(x, y) ==
  <<x[1] + y[1] + ((x[2] + y[2]) \div 100000000), (x[2] + y[2]) % 100000000>>

RECURSIVE PadLeft(_, _)
PadLeft(chars, n) == IF Len(chars) >= n THEN chars ELSE PadLeft(<<"0">> \o chars, n)

LimbsToString(x) ==
  IF x[1] = 0 THEN DecimalDigits(x[2])
  ELSE DecimalDigits(x[1]) \o PadLeft(DecimalDigits(x[2]), 8)

RECURSIVE ExactLimbSum(_)
ExactLimbSum(orders) ==
  IF Len(orders) = 0 THEN <<0, 0>>
  ELSE LimbsAdd(ExactLimbSum(Tail(orders)),
                IF orders[1].sellAmount = Undefined THEN <<0, 0>>
                ELSE LimbsOf(orders[1].sellAmount))

ExactLiquidity(data, answer) ==
  /\ answer.kind = "ok" =>
       /\ data.totalLiquidity = LimbsToString(ExactLimbSum(answer.data))
       /\ data.orderCount = Len(answer.data)
  /\ data.direction = "sell"

\* C13: calculateLiquidity is exact. The totalLiquidity of each direction is
\* the decimal string of the exact integer sum of the sellAmount values of the
\* orders received (a missing sellAmount counts 0), and orderCount is their
\* number, also for amounts and sums above 2^53
C13_ExactLiquidity ==
  (liquidity # MonNull) =>
    /\ ExactLiquidity(liquidity.liquidityAtoB, liquidityOf.AtoB)
    /\ ExactLiquidity(liquidity.liquidityBtoA, liquidityOf.BtoA)

\* 9007199254740993 + 1 = 9007199254740994, and 5 + 0 + 7 = 12 in the other direction
C13_Witness ==
  /\ liquidity # MonNull
  /\ liquidityOf.AtoB = [kind |-> "ok", data |-> <<Order(AboveTwoTo53), Order(<<"1">>)>>]
  /\ liquidity.liquidityAtoB =
       [totalLiquidity |-> <<"9", "0", "0", "7", "1", "9", "9", "2", "5", "4", "7", "4", "0", "9", "9", "4">>,
        orderCount |-> 2, direction |-> "sell"]
  /\ liquidity.liquidityBtoA =
       [totalLiquidity |-> <<"1", "2">>, orderCount |-> 3, direction |-> "sell"]

\* ------------------------------------------------------------ surface claims
\* C14: every result action closes the session. Whenever the action of a
\* result of any kind is invoked, by Enter or by a click, the step leaves the
\* surface collapsed and the query empty
C14_ActionClosesSession ==
  [][uiEvent' # uiEvent => (isOpen' = FALSE /\ query' = <<>>)]_vars

\* Enter invoked the last entry of a list holding remote tokens, a local
\* token and both commands
C14_Witness ==
  /\ uiEvent.kind = "Enter"
  /\ uiEvent.id = IdCmdHoldings
  /\ isOpen = FALSE
  /\ query = <<>>
  /\ \E j \in 1..Len(results) : StartsWith(results[j].id, IdLocalToken)
  /\ \E j \in 1..Len(results) : StartsWith(results[j].id, IdUniswapToken)

\* the aggregation call failed as the session sees it: the fetch rejected, the
\* status was not 2xx, or the body carries an error field
AggregationFailed(outcome) ==
  \/ outcome.kind = "network"
  \/ outcome.kind = "http" /\ ~outcome.ok
  \/ outcome.kind = "http" /\ outcome.ok /\ "error" \in DOMAIN outcome.body

\* the message the failure carries
FailureText(outcome) ==
  CASE outcome.kind = "network" -> outcome.message
    [] "error" \in DOMAIN outcome.body -> outcome.body.error
    [] OTHER -> HttpErrorMessage(outcome.status)

\* the tokens a failed call still delivered
TokensThatCameBack(outcome) ==
  IF outcome.kind = "http" /\ outcome.ok THEN outcome.body.tokens ELSE <<>>

HasEntryWithId(id) == \E j \in 1..Len(results) : results[j].id = id

\* C15: when the aggregation call fails (transport error, non-2xx status, or a
\* body with an error field), the session shows the error message, the list
\* holds every token that came back, every matching registry token the
\* response does not already cover, the commands for a query shorter than two
\* characters, and isLoading is false. Stated for the invocation that last
\* wrote both the list and the error.
C15_FailureSemantics ==
  (resultsBy = errorBy /\ AggregationFailed(mergedFrom.outcome)) =>
    LET back == TokensThatCameBack(mergedFrom.outcome)
        registry == getTokensByChain(mergedFrom.chainId)
    IN /\ searchError = FailureText(mergedFrom.outcome)
       /\ ~isLoading
       /\ \A i \in 1..Len(back) :
            /\ results[i].id = IdUniswapToken \o back[i].address
            /\ results[i].metadata.tvlUSD = back[i].tvlUSD
       /\ \A k \in 1..Len(registry) :
            (/\ LocalTokenMatchesQuery(registry[k], mergedFrom.searchQuery)
             /\ \A i \in 1..Len(back) :
                  toLowerCase(back[i].address) # toLowerCase(registry[k].address))
              => HasEntryWithId(IdLocalToken \o registry[k].address)
       /\ Len(mergedFrom.searchQuery) < CommandQueryLength => EndsWithCommands(results)

\* a 2xx body with an error field and one token, merged with a registry match
\* and the commands
C15_Witness ==
  /\ resultsBy = errorBy
  /\ mergedFrom.outcome.kind = "http" /\ mergedFrom.outcome.ok
  /\ "error" \in DOMAIN mergedFrom.outcome.body
  /\ searchError = "Partial results"
  /\ Len(results) = 4
  /\ results[1].id = IdUniswapToken \o R_USDC.address
  /\ StartsWith(results[2].id, IdLocalToken)
  /\ EndsWithCommands(results)
  /\ ~isLoading

\* a rejected fetch: the registry matches and the commands are still rendered
C15_WitnessTransport ==
  /\ resultsBy = errorBy
  /\ mergedFrom.outcome.kind = "network"
  /\ searchError = "Failed to fetch"
  /\ Len(results) > Len(CommandResults)
  /\ ~isLoading

C17_UniqueIds ==
  \A i, j \in 1..Len(results) : i # j => results[i].id # results[j].id

\* two remote tokens, one of them also in the registry of the chain, a registry
\* token the response does not hold, and both commands
C17_Witness ==
  /\ Len(mergedFrom.apiTokens) = 2
  /\ \E i \in 1..Len(mergedFrom.apiTokens) :
       RegistryHasAddress(mergedFrom.chainId, toLowerCase(mergedFrom.apiTokens[i].address))
  /\ Len(results) = 5
  /\ StartsWith(results[1].id, IdUniswapToken)
  /\ StartsWith(results[2].id, IdUniswapToken)
  /\ StartsWith(results[3].id, IdLocalToken)
  /\ results[5].id = IdCmdHoldings

\* the bucket of an entry: 1 remote token, 2 registry token, 3 command
Bucket(result) ==
  CASE StartsWith(result.id, IdUniswapToken) -> 1
    [] StartsWith(result.id, IdLocalToken)   -> 2
    [] result.type = "command"               -> 3
    [] OTHER                                 -> 0

\* the position of an address in the registry of a chain
RegistryIndex(chain, address) ==
  CHOOSE k \in 1..Len(getTokensByChain(chain)) :
    getTokensByChain(chain)[k].address = address

\* C18: for a non-address query the list is remote tokens, then registry
\* tokens, then commands: buckets never interleave, the remote entries are the
\* response's tokens in the response's order, and the registry entries follow
\* registry order.
C18_BucketOrder ==
  ~isAddressQuery(mergedFrom.searchQuery) =>
    /\ \A i \in 1..Len(results) : Bucket(results[i]) \in 1..3
    /\ \A i, j \in 1..Len(results) :
         i < j => Bucket(results[i]) <= Bucket(results[j])
    /\ Len(results) >= Len(mergedFrom.apiTokens)
    /\ \A i \in 1..Len(mergedFrom.apiTokens) :
         results[i].id = IdUniswapToken \o mergedFrom.apiTokens[i].address
    /\ \A i \in 1..Len(results) :
         Bucket(results[i]) = 1 => i <= Len(mergedFrom.apiTokens)
    /\ \A i, j \in 1..Len(results) :
         (i < j /\ Bucket(results[i]) = 2 /\ Bucket(results[j]) = 2)
           => RegistryIndex(mergedFrom.chainId, results[i].metadata.address)
                < RegistryIndex(mergedFrom.chainId, results[j].metadata.address)
    /\ \A i, j \in 1..Len(results) :
         (i < j /\ Bucket(results[i]) = 3 /\ Bucket(results[j]) = 3)
           => (results[i].id = IdCmdSwap /\ results[j].id = IdCmdHoldings)

\* all three buckets at once: two remote tokens in response order, a registry
\* token, both commands
C18_Witness ==
  /\ mergedFrom.apiTokens = <<R_USDT, R_USDC>>
  /\ Len(results) = 5
  /\ results[1].id = IdUniswapToken \o R_USDT.address
  /\ results[2].id = IdUniswapToken \o R_USDC.address
  /\ results[3].id = IdLocalToken \o L_UST.address
  /\ results[4].id = IdCmdSwap
  /\ results[5].id = IdCmdHoldings

\* two registry tokens in registry order after an empty response
C18_WitnessRegistryOrder ==
  /\ mergedFrom.apiTokens = <<>>
  /\ Len(mergedFrom.searchQuery) >= CommandQueryLength
  /\ Len(results) = 2
  /\ results[1].id = IdLocalToken \o L_USDC.address
  /\ results[2].id = IdLocalToken \o L_UST.address

HasBothCommands(list) ==
  /\ \E i \in 1..Len(list) : list[i].id = IdCmdSwap
  /\ \E i \in 1..Len(list) : list[i].id = IdCmdHoldings

NoCommandEntry(list) == \A i \in 1..Len(list) : list[i].type # "command"

C19_WitnessLonger ==
  /\ mergedFrom.searchQuery = <<"U","S">>
  /\ Len(results) = 3
  /\ NoCommandEntry(results)

\* the one-character whitespace query renders nothing
C19_WitnessBlank ==
  /\ mergedFrom.searchQuery = <<" ">>
  /\ resultsBy > 0
  /\ results = <<>>

\* the POST body fails one of the three input checks
FailsValidation(body) ==
  /\ DOMAIN body = {"chainId", "query"}
  /\ \/ body.chainId.t # "number"
     \/ body.chainId.t = "number" /\ Unindexed(body.chainId.v)
     \/ body.query.t # "string"

\* C20: every input-validation failure of the POST handler (chainId not a
\* number, chainId unsupported, query not a string) is answered with status
\* 400 and a body that carries tokens: [] together with the error message.
C20_ValidationFailureCarriesTokens ==
  LET r == reqs["POST"] IN
  (r.pc = "done" /\ r.input # JsNull /\ FailsValidation(r.input)) =>
    /\ r.response.status = 400
    /\ "error" \in DOMAIN r.response.body
    /\ "tokens" \in DOMAIN r.response.body
    /\ r.response.body.tokens = <<>>

\* the POST body has an invalid shape: it is not JSON, or it is not an object
\* with the properties chainId and query
InvalidShape(input) ==
  \/ input = NotJson
  \/ "t" \in DOMAIN input
  \/ "chainId" \notin DOMAIN input
  \/ "query" \notin DOMAIN input

\* the POST handler served the request in the slot
PostServed == reqs["POST"].pc = "done" /\ reqs["POST"].enteredPost

\* C21: a POST request whose body has an invalid shape (not JSON, or not an
\* object with chainId and query) is answered with status 400, never with 500
\* and never with 200.
C21_InvalidShapeIs400 ==
  (PostServed /\ InvalidShape(reqs["POST"].input)) =>
    reqs["POST"].response.status = 400

\* C22: every 500 response is the same generic response: status 500,
\* tokens: [], chainId 0 and one fixed message, whatever the internal error
\* was; the text of the internal error is not in the body.
C22_NonLeaking500 ==
  \A slot \in Slots :
    (reqs[slot].pc = "done" /\ reqs[slot].response.status = 500) =>
      reqs[slot].response.body =
        [error |-> <<"Internal server error">>, chainId |-> 0, tokens |-> <<>>]

\* the subgraph client failed for the direct call: no endpoint for the chain,
\* or a transport answer that is a timeout, a non-2xx status, a non-empty
\* errors list or an envelope without data
ClientFailed(c) ==
  \/ c.resolved > 0 /\ Unindexed(c.chainId)
  \/ /\ c.met # Unset
     /\ \/ c.met.kind \in {"timeout", "http"}
        \/ "errors" \in DOMAIN c.met /\ c.met.errors # <<>>
        \/ "data" \notin DOMAIN c.met

\* C23: searchTokens and getPoolsForToken never throw, and for every failure
\* of the subgraph client (unsupported chain, timeout, non-2xx, GraphQL
\* errors, missing data) searchTokens returns {chainId, tokens: []} and
\* getPoolsForToken returns {chainId, tokenAddress lowercased, pools: []}.
C23_LocalRecovery ==
  (svc.pc = "done" /\ svc.fn \in {"searchTokens", "getPoolsForToken"}) =>
    /\ svc.outcome.throws = FALSE
    /\ ClientFailed(svc) =>
         IF svc.fn = "searchTokens"
         THEN svc.outcome.value = [chainId |-> svc.chainId, tokens |-> <<>>]
         ELSE svc.outcome.value = [chainId |-> svc.chainId,
                                   tokenAddress |-> toLowerCase(svc.arg),
                                   pools |-> <<>>]

\* a token search whose transport answer carries data next to a non-empty
\* errors list
C23_Witness ==
  /\ svc.fn = "searchTokens" /\ svc.pc = "done"
  /\ svc.chainId = ARBITRUM
  /\ svc.met # Unset /\ svc.met.kind = "graphql" /\ "data" \in DOMAIN svc.met
  /\ svc.outcome.value.tokens = <<>>

\* a pool query for a mixed-case address on a chain without endpoint
C23_WitnessPools ==
  /\ svc.fn = "getPoolsForToken" /\ svc.pc = "done"
  /\ svc.chainId = 5 /\ svc.arg = AddrOf("A") /\ svc.fetches = 0
  /\ svc.outcome.value.tokenAddress = AddrOf("a")
  /\ svc.outcome.value.pools = <<>>

\* C24: a missing access key is not recovered per request: an aggregation
\* request that needs the indexer (supported chain, non-blank query) and is
\* made without the key does not complete as the ordinary empty result,
\* status 200 with tokens: [].
C24_MissingCredentialIsFatal ==
  \A slot \in Slots :
    (/\ ~apiKeySet
     /\ Answered(slot)
     /\ reqs[slot].log.searchTokens > 0
     /\ ~isBlank(RequestedQuery(slot)))
      => ~(/\ reqs[slot].response.status = 200
           /\ reqs[slot].response.body.tokens = <<>>)

\* C25: without the access key the endpoint resolution for Ethereum mainnet
\* falls back to a public endpoint and the query is sent, instead of failing.
C25_MainnetWithoutKey ==
  (/\ ~apiKeySet
   /\ svc.fn = "queryUniswapV3Subgraph"
   /\ svc.chainId = ETHEREUM
   /\ svc.pc # "new")
    => /\ svc.fetches = 1
       /\ svc.pc = "done" => (svc.met # Unset)

\* C26: for every chain without a subgraph id (no entry, or an empty one) the
\* client raises the unsupported-chain error and fetch is never invoked,
\* whether it is called directly or through searchTokens or getPoolsForToken.
C26_UnsupportedFailsBeforeFetch ==
  (svc.fn # "none" /\ svc.resolved > 0 /\ Unindexed(svc.chainId)) =>
    /\ svc.pc = "done"
    /\ svc.fetches = 0
    /\ svc.sent = Unset
    /\ svc.fn = "queryUniswapV3Subgraph" =>
         /\ svc.outcome.throws
         /\ svc.outcome.error =
              [template |-> "No Uniswap v3 subgraph configured for chainId=${chainId}",
               chainId |-> svc.chainId]

\* the client called for Sepolia, whose subgraph id is empty, without the
\* access key: the unsupported-chain error, not the key error
C26_Witness ==
  /\ svc.fn = "queryUniswapV3Subgraph" /\ svc.pc = "done"
  /\ svc.chainId = SEPOLIA
  /\ ~apiKeySet
  /\ svc.outcome.throws /\ svc.outcome.error.chainId = SEPOLIA
  /\ svc.fetches = 0

\* the transport answered with a 2xx status
Is2xx(answer) ==
  /\ answer.kind # "timeout"
  /\ answer.kind = "http" => answer.status \in 200..299

\* a 2xx answer whose errors list is absent or empty and whose data is present
IsDataAnswer(answer) ==
  /\ Is2xx(answer)
  /\ "errors" \in DOMAIN answer => answer.errors = <<>>
  /\ "data" \in DOMAIN answer

\* C27: once the transport answered, the client returns the data payload if
\* and only if the status is 2xx, the errors list is absent or empty and a
\* data payload is present, an empty payload included; otherwise (timeout,
\* non-2xx, non-empty errors list, no data) it throws an error whose message
\* carries the chain id.
C27_ClientOutcome ==
  (svc.fn = "queryUniswapV3Subgraph" /\ svc.pc = "done" /\ svc.met # Unset) =>
    /\ svc.outcome.throws = ~IsDataAnswer(svc.met)
    /\ IsDataAnswer(svc.met) => svc.outcome.data = svc.met.data
    /\ ~IsDataAnswer(svc.met) =>
         /\ "chainId" \in DOMAIN svc.outcome.error
         /\ svc.outcome.error.chainId = svc.chainId

\* an empty but present payload is returned
C27_Witness ==
  /\ svc.fn = "queryUniswapV3Subgraph" /\ svc.pc = "done"
  /\ svc.met = [kind |-> "data", data |-> <<>>]
  /\ svc.outcome = [throws |-> FALSE, data |-> <<>>]

\* a non-empty errors list next to data makes the client throw
C27_WitnessErrors ==
  /\ svc.fn = "queryUniswapV3Subgraph" /\ svc.pc = "done"
  /\ svc.met # Unset /\ svc.met.kind = "graphql" /\ "data" \in DOMAIN svc.met
  /\ svc.outcome.throws /\ svc.outcome.error.chainId = ARBITRUM

\* the text is empty or holds whitespace only
WhitespaceOnly(text) == \A i \in 1..Len(text) : text[i] \in WhitespaceChars

\* C28: for every empty or whitespace-only text and every chain id,
\* searchTokens returns {chainId, tokens: []} without resolving an endpoint
\* and without a network call.
C28_BlankShortCircuit ==
  (svc.fn = "searchTokens" /\ svc.pc # "new" /\ WhitespaceOnly(svc.arg)) =>
    /\ svc.pc = "done"
    /\ svc.outcome = [throws |-> FALSE,
                      value |-> [chainId |-> svc.chainId, tokens |-> <<>>]]
    /\ svc.resolved = 0
    /\ svc.fetches = 0

\* two spaces searched on an indexed chain with the access key set
C28_Witness ==
  /\ svc.fn = "searchTokens" /\ svc.pc = "done"
  /\ svc.arg = <<" ", " ">>
  /\ svc.chainId = ETHEREUM /\ apiKeySet
  /\ svc.resolved = 0
  /\ svc.outcome.value.tokens = <<>>

\* the request of a slot was answered with a token list
AnsweredWithTokens(slot) ==
  /\ reqs[slot].pc = "done"
  /\ reqs[slot].response.status # 0
  /\ "tokens" \in DOMAIN reqs[slot].response.body

\* C29: every response holds at most 10 tokens in descending order of tvlUSD,
\* and the calls of getPoolsForToken are exactly one per returned token, each
\* for the chain of the response and with limit 10: none for a token that is
\* not in the response. No request ever has more than 10 pool calls.
C29_BoundedFanOut ==
  \A slot \in Slots :
    /\ Len(reqs[slot].log.getPoolsForToken) <= 10
    /\ AnsweredWithTokens(slot) =>
         LET tokens == reqs[slot].response.body.tokens
             calls == reqs[slot].log.getPoolsForToken
         IN /\ Len(tokens) <= 10
            /\ \A i \in 1..Len(tokens), j \in 1..Len(tokens) :
                 i < j => tokens[i].tvlUSD >= tokens[j].tvlUSD
            /\ Len(calls) = Len(tokens)
            /\ \A i \in 1..Len(calls) :
                 /\ calls[i].tokenAddress = tokens[i].address
                 /\ calls[i].chainId = reqs[slot].response.body.chainId
                 /\ calls[i].limit = 10

\* twelve tokens match: the response holds ten of them, the one with 900 USD
\* first and the one with 100 USD last, ten pool calls were made, and the
\* eleventh token, worth 1000 USD, got no pool call
C29_Witness ==
  /\ AnsweredWithTokens("POST")
  /\ upTokens = ManyTokensAnswer
  /\ reqs["POST"].response.status = 200
  /\ Len(reqs["POST"].response.body.tokens) = 10
  /\ reqs["POST"].response.body.tokens[1].tvlUSD = 900
  /\ reqs["POST"].response.body.tokens[10].tvlUSD = 100
  /\ Len(reqs["POST"].log.getPoolsForToken) = 10
  /\ \A i \in 1..10 : reqs["POST"].log.getPoolsForToken[i].tokenAddress # AddrOf("e")
  /\ \E i \in 1..10 : Len(reqs["POST"].response.body.tokens[i].pools) = 2

\* the handler of a slot called searchTokens and has responded
SearchedAndAnswered(slot) ==
  Answered(slot) /\ reqs[slot].log.searchTokens = 1

\* the token search of the request of a slot yields no token: the text is
\* blank, or the indexer was not reached for want of the access key, or it
\* failed, or it matched nothing
SearchYieldsNothing(slot) ==
  \/ WhitespaceOnly(RequestedQuery(slot))
  \/ ~apiKeySet
  \/ upTokens \in TransportFailures
  \/ upTokens = [kind |-> "data", data |-> <<>>]

\* C30: when the token search yields no token, the response has status 200
\* and the body {chainId, tokens: []} with no error field, and no pool call
\* was made.
C30_EmptySearchIs200 ==
  \A slot \in Slots :
    (SearchedAndAnswered(slot) /\ SearchYieldsNothing(slot)) =>
      /\ reqs[slot].response.status = 200
      /\ reqs[slot].response.body = [chainId |-> RequestedChain(slot), tokens |-> <<>>]
      /\ reqs[slot].log.getPoolsForToken = <<>>

\* a search that timed out at the indexer, answered to the POST request
C30_Witness ==
  /\ SearchedAndAnswered("POST")
  /\ upTokens = [kind |-> "timeout"]
  /\ reqs["POST"].log.fetch = 1
  /\ reqs["POST"].response.status = 200
  /\ reqs["POST"].response.body.tokens = <<>>

\* a search that matched nothing, answered to the GET request
C30_WitnessNoMatch ==
  /\ SearchedAndAnswered("GET")
  /\ upTokens = [kind |-> "data", data |-> <<>>]
  /\ reqs["GET"].log.fetch = 1
  /\ reqs["GET"].response.status = 200

\* a blank text, answered without a call of the indexer
C30_WitnessBlank ==
  /\ SearchedAndAnswered("POST")
  /\ RequestedQuery("POST") = <<" ">>
  /\ reqs["POST"].log.fetch = 0
  /\ reqs["POST"].response.status = 200

\* sub occurs in s
Occurs(sub, s) ==
  \E k \in 0..(Len(s) - Len(sub)) : \A m \in 1..Len(sub) : s[k + m] = sub[m]

\* the registry token is a match of the text, whatever the case
RegistryHit(token, text) ==
  LET q == toLowerCase(text)
  IN \/ Occurs(q, toLowerCase(token.symbol))
     \/ Occurs(q, toLowerCase(token.name))
     \/ Occurs(q, toLowerCase(token.address))
     \/ (token.ticker # Undefined /\ Occurs(q, toLowerCase(token.ticker)))

\* the positions in the registry of the first five matches
FirstFiveHits(chain, text) ==
  LET reg == getTokensByChain(chain)
      hits == { i \in 1..Len(reg) : RegistryHit(reg[i], text) }
  IN { i \in hits : Cardinality({ j \in hits : j < i }) < 5 }

\* of these, the positions whose address no remote token has
KeptHits(chain, text, apiTokens) ==
  { i \in FirstFiveHits(chain, text) :
      \A k \in 1..Len(apiTokens) :
        toLowerCase(apiTokens[k].address)
          # toLowerCase(getTokensByChain(chain)[i].address) }

LocalEntries == { j \in 1..Len(results) : StartsWith(results[j].id, IdLocalToken) }

\* C31: the local entries of the merged list are the first five registry
\* matches of the query (symbol, name, address or ticker, case-insensitive) in
\* registry order, less those whose lowercased address a remote result has:
\* at most five, with the cap applied before the removal.
C31_LocalScan ==
  resultsBy = 1 =>
    LET reg == getTokensByChain(mergedFrom.chainId)
        kept == KeptHits(mergedFrom.chainId, mergedFrom.searchQuery, mergedFrom.apiTokens)
    IN /\ Cardinality(LocalEntries) <= 5
       /\ Cardinality(LocalEntries) = Cardinality(kept)
       /\ \A i \in kept :
            LET j == Len(mergedFrom.apiTokens) + 1 + Cardinality({ h \in kept : h < i })
            IN /\ j \in LocalEntries
               /\ results[j].metadata.address = reg[i].address
               /\ results[j].title = reg[i].symbol

\* seven registry tokens match "t" and the remote list holds the second of
\* them: four local entries follow the remote one, the sixth match is not
\* among them
C31_Witness ==
  /\ resultsBy = 1
  /\ mergedFrom.chainId = OPTIMISM
  /\ mergedFrom.searchQuery = <<"t">>
  /\ mergedFrom.apiTokens = <<R_T2>>
  /\ Cardinality(LocalEntries) = 4
  /\ Len(results) = 7
  /\ results[5].metadata.address = AddrOf("5")
  /\ \A j \in LocalEntries : results[j].metadata.address # AddrOf("6")

\* a performSearch invocation is made for a text that is neither blank nor an
\* address, by a closure built for a chain without indexer
SearchOffIndexStep ==
  /\ issued' = issued + 1
  /\ Unindexed(lastCall'.chain)
  /\ ~WhitespaceOnly(lastCall'.q)
  /\ ~isAddressQuery(lastCall'.q)

\* C32: on a chain without indexer, performSearch for a non-blank text that is
\* no address calls the aggregation endpoint not at all, leaves the session
\* error unset, and renders the registry matches only, followed by the two
\* commands exactly when the text is shorter than 2.
C32_OffIndexIsLocalOnly ==
  [][ SearchOffIndexStep =>
        LET chain == lastCall'.chain
            text == lastCall'.q
            kept == FirstFiveHits(chain, text)
            n == Cardinality(kept)
        IN /\ fetchLog' = fetchLog
           /\ inflight' = inflight
           /\ searchError' = Null
           /\ resultsBy' = issued'
           /\ Len(results') = n + (IF Len(text) < 2 THEN 2 ELSE 0)
           /\ \A j \in 1..n :
                /\ StartsWith(results'[j].id, IdLocalToken)
                /\ \E i \in kept :
                     results'[j].metadata.address = getTokensByChain(chain)[i].address
           /\ Len(text) < 2 =>
                /\ results'[n + 1].id = IdCmdSwap
                /\ results'[n + 2].id = IdCmdHoldings ]_vars

\* "u" searched on Sepolia: one registry token and the two commands, no call
C32_Witness ==
  /\ issued > 0 /\ resultsBy = issued
  /\ lastCall.chain = SEPOLIA /\ lastCall.q = <<"u">>
  /\ fetchLog = {}
  /\ searchError = Null
  /\ Len(results) = 3
  /\ results[1].id = IdLocalToken \o AddrOf("A")

\* "US" searched on Sepolia: the registry token alone
C32_WitnessLonger ==
  /\ issued > 0 /\ resultsBy = issued
  /\ lastCall.chain = SEPOLIA /\ lastCall.q = <<"U", "S">>
  /\ fetchLog = {}
  /\ Len(results) = 1

\* a step in which a performSearch invocation writes the result list
ListReplaced == resultsBy' # resultsBy

\* a step in which Enter invokes the action of an entry
EnterCommits == uiEvent' # uiEvent /\ uiEvent'.kind = "Enter"

C33_WitnessLonger ==
  /\ resultsBy = 2
  /\ lastCall.q = <<"u">>
  /\ Len(results) > 2
  /\ selectedIndex = 0
  /\ uiEvent.kind = "Enter"
  /\ uiEvent.id = results[1].id

\* the response holds no sellAmount that BigInt rejects
IntegerAmounts(answer) ==
  answer.kind = "ok" =>
    \A i \in 1..Len(answer.data) :
      \/ answer.data[i].sellAmount = Undefined
      \/ \A k \in 1..Len(answer.data[i].sellAmount) :
           answer.data[i].sellAmount[k] \in {"0","1","2","3","4","5","6","7","8","9"}

\* one direction of an aggregate, null when the aggregate is
DirectionOf(data, direction) == IF data = MonNull THEN MonNull ELSE data[direction]

\* every poll in flight made the queries (A, B) and (B, A), and no other
TwoQueriesPerPoll ==
  \A poll \in polls :
    /\ Len(poll.queries) = 2
    /\ poll.queries[1] = [sellToken |-> poll.tokenA, buyToken |-> poll.tokenB]
    /\ poll.queries[2] = [sellToken |-> poll.tokenB, buyToken |-> poll.tokenA]

\* C34 as stated: each poll makes the two order queries (A, B) and (B, A), and
\* whatever one direction's response is changed to, failures included, the
\* other direction's totalLiquidity and orderCount stay as they are.
C34_DirectionsIndependent ==
  /\ TwoQueriesPerPoll
  /\ (liquidityOf.id # 0 /\ liquidity # MonNull) =>
       \A other \in OrderAnswers :
         /\ DirectionOf(fetchPairLiquidity(liquidity.tokenA, liquidity.tokenB,
                                           liquidityOf.AtoB, other), "liquidityAtoB")
              = liquidity.liquidityAtoB
         /\ DirectionOf(fetchPairLiquidity(liquidity.tokenA, liquidity.tokenB,
                                           other, liquidityOf.BtoA), "liquidityBtoA")
              = liquidity.liquidityBtoA

\* C34 amended: each poll makes the two order queries (A, B) and (B, A); the
\* orderCount of each direction is the number of orders its own query
\* received (none on a failure), and whatever one direction's response is
\* changed to among the responses whose sellAmounts are integers, failures
\* included, the other direction's totalLiquidity and orderCount stay as they
\* are. A sellAmount that is no integer in either response makes the whole
\* aggregate null.
C34_DirectionsIndependentForIntegers ==
  /\ TwoQueriesPerPoll
  /\ liquidityOf.id # 0 =>
       /\ liquidity = MonNull <=>
            ~(IntegerAmounts(liquidityOf.AtoB) /\ IntegerAmounts(liquidityOf.BtoA))
       /\ liquidity # MonNull =>
            /\ liquidity.liquidityAtoB.orderCount
                 = (IF liquidityOf.AtoB.kind = "ok" THEN Len(liquidityOf.AtoB.data) ELSE 0)
            /\ liquidity.liquidityBtoA.orderCount
                 = (IF liquidityOf.BtoA.kind = "ok" THEN Len(liquidityOf.BtoA.data) ELSE 0)
            /\ \A other \in { a \in OrderAnswers : IntegerAmounts(a) } :
                 /\ fetchPairLiquidity(liquidity.tokenA, liquidity.tokenB,
                                       liquidityOf.AtoB, other).liquidityAtoB
                      = liquidity.liquidityAtoB
                 /\ fetchPairLiquidity(liquidity.tokenA, liquidity.tokenB,
                                       other, liquidityOf.BtoA).liquidityBtoA
                      = liquidity.liquidityBtoA

\* the query (A, B) received three orders and the query (B, A) failed: 12 in
\* three orders one way, 0 in no order the other way
C34_Witness ==
  /\ liquidityOf.id # 0 /\ liquidity # MonNull
  /\ liquidityOf.AtoB.kind = "ok" /\ Len(liquidityOf.AtoB.data) = 3
  /\ liquidityOf.BtoA = [kind |-> "network"]
  /\ liquidity.liquidityAtoB.totalLiquidity = <<"1", "2">>
  /\ liquidity.liquidityAtoB.orderCount = 3
  /\ liquidity.liquidityBtoA.totalLiquidity = <<"0">>
  /\ liquidity.liquidityBtoA.orderCount = 0

\* a poll in flight with its two queries
C34_WitnessQueries ==
  \E poll \in polls :
    poll.queries = <<[sellToken |-> "0xA", buyToken |-> "0xB"],
                     [sellToken |-> "0xB", buyToken |-> "0xA"]>>

\* what fetchOrders is to return for a response of the orderbook API
OrdersReceived(answer, orders) ==
  /\ answer.kind \in {"network", "http", "unparseable"} => orders = <<>>
  /\ answer.kind = "ok" => orders = answer.data

\* C35: fetchOrders returns the empty sequence for a network error, a non-2xx
\* status and an unparseable body, and the orders received for a successful
\* response.
C35_FetchOrdersNeverFails ==
  liquidityOf.id # 0 =>
    /\ OrdersReceived(liquidityOf.AtoB, liquidityOf.ordersAtoB)
    /\ OrdersReceived(liquidityOf.BtoA, liquidityOf.ordersBtoA)

\* one query met a body that is not JSON, the other received three orders
C35_Witness ==
  /\ liquidityOf.id # 0
  /\ liquidityOf.AtoB = [kind |-> "unparseable"]
  /\ liquidityOf.ordersAtoB = <<>>
  /\ Len(liquidityOf.ordersBtoA) = 3
  /\ liquidityOf.ordersBtoA = liquidityOf.BtoA.data
  /\ liquidity # MonNull

\* one query met a network error, the other a 500
C35_WitnessFailures ==
  /\ liquidityOf.id # 0
  /\ liquidityOf.AtoB = [kind |-> "network"]
  /\ liquidityOf.BtoA = [kind |-> "http", status |-> 500]
  /\ liquidityOf.ordersAtoB = <<>> /\ liquidityOf.ordersBtoA = <<>>

\* C36: whenever liquidity is non-null it is the liquidity of the currently
\* selected pair: a fetch started for a previous pair that resolves after the
\* pair was changed or cleared never becomes the reported liquidity.
C36_PairConsistency ==
  liquidity # MonNull => (liquidity.tokenA = tokenA /\ liquidity.tokenB = tokenB)

\* the pair was cleared and a fetch made for (0xA, 0xB) is reported
C36_StaleAfterClear ==
  /\ tokenA = "" /\ tokenB = ""
  /\ liquidity # MonNull
  /\ liquidity.tokenA = "0xA" /\ liquidity.tokenB = "0xB"

\* the pair was selected once and never changed: every poll so far is a poll
\* of the selected pair, the first by the initial fetch, the others by the
\* interval
OnlyPairPolled ==
  /\ renders = 2
  /\ enabledFor(tokenA, tokenB)
  /\ isMainnet(monChainId)

\* C37: once the polls of a pair have all resolved, the reported liquidity is
\* the result of the poll issued last; the response of an older poll never
\* replaces the result of a newer one.
C37_PollOrdering ==
  (OnlyPairPolled /\ polled > 1 /\ polls = {}) => liquidityOf.id = polled

\* the interval's poll resolved first with three orders, the initial fetch
\* after it with none, and the monitor reports no order
C37_OlderPollReported ==
  /\ OnlyPairPolled /\ polled = 2 /\ polls = {}
  /\ liquidityOf.id = 1
  /\ liquidity # MonNull
  /\ liquidity.liquidityAtoB.orderCount = 0

\* the session was dismissed (an action or Escape emptied the input), the
\* debounce timer of the emptied input has fired, and nothing was typed since
DismissedAndSettled ==
  /\ epoch > 0
  /\ query = <<>>
  /\ lastCall.q = <<>>
  /\ lastCall.epoch = epoch

\* C38: once the session was dismissed and the debounce window has elapsed,
\* the result list is empty, and it stays empty until the next input, also
\* when a search issued before the dismissal resolves afterwards.
C38_EmptyAfterDismissal ==
  DismissedAndSettled => results = <<>>

\* the search for "u" issued before the dismissal resolved after the
\* clearing search and its list is rendered
C38_StaleListAfterDismissal ==
  /\ DismissedAndSettled
  /\ issued = 2 /\ resultsBy = 1
  /\ inflight = {}
  /\ Len(results) > 0
  /\ mergedFrom.searchQuery = <<"u">>

\* the list rendered after the dismissal is empty unless an earlier search
\* wrote it after the clearing search did
C38_EmptyUnlessOvertaken ==
  (DismissedAndSettled /\ resultsBy = issued) => results = <<>>

\* C39: loading terminates. When every issued aggregation call eventually
\* returns or fails, then after search number k has been issued isLoading
\* eventually is false unless a further search is issued, and once false it
\* only turns true in a step that issues a search.
C39_LoadingTerminates ==
  /\ \A k \in 1..(MaxCalls + 1) :
       (issued = k) ~> (isLoading = FALSE \/ issued > k)
  /\ [][(isLoading = FALSE /\ isLoading' = TRUE) => issued' = issued + 1]_vars

\* the indicator was raised by the only search issued, the call has settled
\* and the indicator is down
C39_Witness ==
  /\ issued = 1
  /\ fetchLog = {1}
  /\ inflight = {}
  /\ resultsBy = 1
  /\ isLoading = FALSE

\* the same after a failed call
C39_WitnessFailure ==
  /\ issued = 1
  /\ fetchLog = {1}
  /\ inflight = {}
  /\ mergedFrom.outcome.kind = "network"
  /\ isLoading = FALSE

\* an address search ended its own indicator while an earlier call is pending
C39_WitnessAddress ==
  /\ issued = 2
  /\ IsAddressPattern(lastCall.q)
  /\ inflight # {}
  /\ isLoading = FALSE

====
